---------------------------- MODULE Spec2Model ----------------------------
(***************************************************************************)
(* Joybus controller layer of src/game/joybus.c: the poll-frame encoder    *)
(* (__osPackReadData), the poll-frame decoder (osContGetReadDataEx with    *)
(* __osContReadGCNInputData), the status decoder (__osContGetInitDataEx),  *)
(* the GameCube rumble path of __osMotorAccessEx and the SI access gate    *)
(* around osContStartReadDataEx.                                           *)
(*                                                                         *)
(* The PIF command buffer is modelled byte by byte.  Struct sizes, field   *)
(* offsets and protocol constants are those of the structures and macros   *)
(* the source uses (joybus.h and the libultra headers).                    *)
(***************************************************************************)
EXTENDS Integers, Sequences, FiniteSets, TLC

(***************************************************************************)
(* Program constants.                                                      *)
(***************************************************************************)
MAXCONTROLLERS == 4
RamArraySize == 60
PIF_CMD_SKIP_CHNL == 0
PIF_CMD_RESET_CHNL == 253
PIF_CMD_END == 254
PIF_CMD_NOP == 255
CONT_CMD_REQUEST_STATUS == 0
CONT_CMD_READ_BUTTON == 1
CONT_CMD_GCN_SHORT_POLL == 64
CONT_CMD_GCN_LONG_POLL == 67
CHNL_ERR_SUCCESS == 0
CHNL_ERR_OVERRUN == 64
CHNL_ERR_NORESP == 128
CHNL_ERR_MASK == 192
GCN_MODE_3_220 == 3
MOTOR_STOP == 0
MOTOR_START == 1
MOTOR_STOP_HARD == 2
CONT_CONSOLE_GCN == 8
CONT_TYPE_NORMAL == 5
CONT_TYPE_GCN == 9
CONT_TYPE_NULL == 65535
GCN_C_STICK_THRESHOLD == 38
GCN_TRIGGER_THRESHOLD == 85
PFS_MOTOR_INITIALIZED == 8

Ports == 0 .. (MAXCONTROLLERS - 1)
Byte == 0 .. 255

(***************************************************************************)
(* Integer helpers for the C bit operations.                               *)
(***************************************************************************)
\* (v & mask) != 0 for a one-bit mask given as its value (a power of two).
HasBit(v, bit) == (v \div bit) % 2 = 1

\* (v & 0xC0): the two top bits of a byte.
AndErrMask(v) == (v \div 64) * 64

\* A byte read as s8.
S8(b) == IF b >= 128 THEN b - 256 ELSE b

\* An int stored into an s8 (two's complement wraparound).
WrapS8(v) == S8(v % 256)

\* An int stored into a u8.
WrapU8(v) == v % 256

(***************************************************************************)
(* The command buffer: __osContPifRam.ramarray as the sequence of its      *)
(* RamArraySize bytes; At(ram, off) is the byte at offset off (from 0).    *)
(* A store at or past RamArraySize leaves the array: Store keeps the part  *)
(* that falls inside and StoreOver reports the stray store.                *)
(***************************************************************************)
ZeroRam == [i \in 1 .. RamArraySize |-> 0]

At(ram, off) == ram[off + 1]

Store(ram, off, bytes) ==
    IF off >= Len(ram)
    THEN ram
    ELSE IF off + Len(bytes) > Len(ram)
    THEN SubSeq(ram, 1, off) \o SubSeq(bytes, 1, Len(ram) - off)
    ELSE SubSeq(ram, 1, off) \o bytes
             \o SubSeq(ram, off + Len(bytes) + 1, Len(ram))

StoreOver(off, bytes) == off + Len(bytes) > RamArraySize

\* n copies of PIF_CMD_NOP: the receive area of a freshly written command.
NopFill(n) == [i \in 1 .. n |-> PIF_CMD_NOP]

\* sN64WriteFormat: tx = 1 (cmdID), rx = 4 (input), cmdID, 4 bytes of 0xFF.
sN64WriteFormat == <<1, 4, CONT_CMD_READ_BUTTON>> \o NopFill(4)

\* sGCNWriteFormatShort with its rumble field set: tx = 3 (cmdID,
\* analog_mode, rumble), rx = 8 (input), then 8 bytes of 0xFF.
sGCNWriteFormatShort(rumble) ==
    <<3, 8, CONT_CMD_GCN_SHORT_POLL, GCN_MODE_3_220, rumble>> \o NopFill(8)

\* sizeof(__OSContReadFormat), sizeof(__OSContGCNShortPollFormat),
\* sizeof(__OSContGCNLongPollFormat), sizeof(__OSContRequestFormatAligned).
SizeofReadFormat == 7
SizeofGCNShortPollFormat == 13
SizeofGCNLongPollFormat == 15
SizeofRequestFormatAligned == 8

(***************************************************************************)
(* The Channel Registry gPortInfo[port] and the input records.             *)
(***************************************************************************)
ZeroPortInfo == [plugged |-> FALSE, type |-> 0, playerNum |-> 0, gcRumble |-> 0]

ZeroOrigins ==
    [initialized |-> FALSE, stick |-> <<0, 0>>, c_stick |-> <<0, 0>>,
     trig |-> <<0, 0>>]

ZeroPad ==
    [errno |-> 0, button |-> 0, stick |-> <<0, 0>>, c_stick |-> <<0, 0>>,
     trig |-> <<0, 0>>, origins |-> ZeroOrigins]


VARIABLES
    gPortInfo,            \* OSPortInfo gPortInfo[MAXCONTROLLERS]
    gContStatusPolling,   \* status repolling mode (set by start_controller_status_polling)
    osContLastCmd,        \* __osContLastCmd
    osContPifRam,         \* __osContPifRam.ramarray, as bytes
    ramOverrun,           \* a store of the encoder left ramarray
    pifRam,               \* the command frame last written to the PIF RAM
    contPads,             \* OSContPadEx pad[MAXCONTROLLERS] given to osContGetReadDataEx
    contStatus,           \* OSContStatus data[MAXCONTROLLERS] given to __osContGetInitDataEx
    bitpattern,           \* *pattern written by __osContGetInitDataEx
    walk,                 \* what the last osContGetReadDataEx pass did, the records
                          \* and the status polling flag it started from
    polls,                \* number of poll cycles started
    phase,                \* position of the sequential driver
    siAccess,             \* the flow holding the SI access gate, or "none"
    pc,                   \* position of the game flow and of the rumble flow
    packer,               \* port and ptr of a running __osPackReadData
    pfs,                  \* the OSPfs of the rumble flow: status and channel
    motorArg,             \* motorState of the running __osMotorAccessEx
    rumbleSet,            \* per port, whether an __osMotorAccessEx that set its
                          \* rumble state has returned
    callSaw,              \* per port with rumbleSet when the running
                          \* osContStartReadDataEx began, the rumble states the
                          \* port has held since that moment
    MotorDataBuf,         \* __MotorDataBuf[MAXCONTROLLERS], each ramarray as bytes
    motor,                \* the last osMotorInitEx and __osMotorAccessEx calls:
                          \* what the accessory answered and what they returned
    startRead             \* the last osContStartReadDataEx call: what its
                          \* transfers returned and what it returned

flowVars ==
    <<siAccess, pc, packer, pfs, motorArg, rumbleSet, callSaw, MotorDataBuf,
      motor>>

vars ==
    <<gPortInfo, gContStatusPolling, osContLastCmd, osContPifRam, ramOverrun,
      pifRam, contPads, contStatus, bitpattern, walk, polls, phase, siAccess,
      pc, packer, pfs, motorArg, rumbleSet, callSaw, MotorDataBuf, motor,
      startRead>>

(***************************************************************************)
(* __osPackReadData.  PackPort is one iteration of its loop over the       *)
(* ports; st = [ram, ptr, over] is the buffer, the cursor and whether a    *)
(* store has left the buffer.                                              *)
(***************************************************************************)
PortIsPolled(info, polling) ==
    info.plugged /\ (polling \/ info.playerNum # 0)

PortIsGCN(info) == HasBit(info.type, CONT_CONSOLE_GCN)

PackBlock(st, bytes) ==
    [ram |-> Store(st.ram, st.ptr, bytes),
     ptr |-> st.ptr + Len(bytes),
     over |-> st.over \/ StoreOver(st.ptr, bytes)]

\* PackPort without the store of portInfo->gcRumble into send.rumble.
PackPortStaleRumble(info, polling, st) ==
    IF PortIsPolled(info, polling)
    THEN IF PortIsGCN(info)
         THEN PackBlock(st, sGCNWriteFormatShort(MOTOR_STOP))
         ELSE PackBlock(st, sN64WriteFormat)
    ELSE [st EXCEPT !.ptr = st.ptr + 1]

PackPort(info, polling, st) ==
    IF PortIsPolled(info, polling)
    THEN IF PortIsGCN(info)
         THEN PackBlock(st, sGCNWriteFormatShort(info.gcRumble))
         ELSE PackBlock(st, sN64WriteFormat)
    ELSE [st EXCEPT !.ptr = st.ptr + 1]

RECURSIVE PackLoop(_, _, _, _)
PackLoop(info, polling, port, st) ==
    IF port >= MAXCONTROLLERS
    THEN st
    ELSE PackLoop(info, polling, port + 1, PackPort(info[port], polling, st))

\* PackEnd with the terminator stored one byte late.
PackEndOffByOne(st) ==
    [ram |-> Store(st.ram, st.ptr + 1, <<PIF_CMD_END>>),
     ptr |-> st.ptr + 1,
     over |-> st.over \/ StoreOver(st.ptr + 1, <<PIF_CMD_END>>)]

PackEnd(st) ==
    [ram |-> Store(st.ram, st.ptr, <<PIF_CMD_END>>),
     ptr |-> st.ptr,
     over |-> st.over \/ StoreOver(st.ptr, <<PIF_CMD_END>>)]

osPackReadData(info, polling) ==
    PackEnd(PackLoop(info, polling, 0, [ram |-> ZeroRam, ptr |-> 0, over |-> FALSE]))

(***************************************************************************)
(* __osContGetInitDataEx: the status decode.  Slot port of the response    *)
(* lies at port * SizeofRequestFormatAligned: align0, size.tx, size.rx,    *)
(* send.cmdID, recv.type.h, recv.type.l, recv.status, align1.              *)
(***************************************************************************)
\* CHNL_ERR(size): ((size.rx & CHNL_ERR_MASK) >> 4).
CHNL_ERR(rx) == AndErrMask(rx) \div 16

RequestSlot(ram, port) ==
    LET base == port * SizeofRequestFormatAligned
    IN  [rx |-> At(ram, base + 2), typeh |-> At(ram, base + 4),
         typel |-> At(ram, base + 5), status |-> At(ram, base + 6)]

\* data->type = (type.l << 8) | type.h
SwappedType(slot) == slot.typel * 256 + slot.typeh

\* portInfo->type: CONT_TYPE_NULL is recorded as CONT_TYPE_NORMAL.
PortTypeKeepsNull(type) == type

PortType(type) == IF type = CONT_TYPE_NULL THEN CONT_TYPE_NORMAL ELSE type

InitDataStatus(old, slot) ==
    IF CHNL_ERR(slot.rx) = CHNL_ERR_SUCCESS \div 16
    THEN [error |-> CHNL_ERR(slot.rx), type |-> SwappedType(slot),
          status |-> slot.status]
    ELSE [old EXCEPT !.error = CHNL_ERR(slot.rx)]

InitDataPort(old, slot) ==
    IF CHNL_ERR(slot.rx) = CHNL_ERR_SUCCESS \div 16
    THEN [old EXCEPT !.type = PortType(SwappedType(slot)), !.plugged = TRUE]
    ELSE old

\* The mask with every bit set.
InitDataBitsAllSet(ram, port) == 2 ^ MAXCONTROLLERS - 1

RECURSIVE InitDataBits(_, _)
InitDataBits(ram, port) ==
    IF port >= MAXCONTROLLERS
    THEN 0
    ELSE (IF CHNL_ERR(RequestSlot(ram, port).rx) = CHNL_ERR_SUCCESS \div 16
          THEN 2 ^ port ELSE 0) + InitDataBits(ram, port + 1)

osContGetInitDataEx(ram) ==
    /\ contStatus' = [p \in Ports |-> InitDataStatus(contStatus[p], RequestSlot(ram, p))]
    /\ gPortInfo' = [p \in Ports |-> InitDataPort(gPortInfo[p], RequestSlot(ram, p))]
    /\ bitpattern' = InitDataBits(ram, 0)


(***************************************************************************)
(* __osContReadGCNInputData.  Button words are 16-bit; a field is a        *)
(* one-bit mask.  GCNButtons: START 0x1000, Y 0x0800, X 0x0400, B 0x0200,  *)
(* A 0x0100, L 0x0040, R 0x0020, Z 0x0010, D_UP 0x0008, D_DOWN 0x0004,     *)
(* D_RIGHT 0x0002, D_LEFT 0x0001.  N64Buttons: A 0x8000, B 0x4000,         *)
(* Z 0x2000, START 0x1000, D_UP 0x0800, D_DOWN 0x0400, D_LEFT 0x0200,      *)
(* D_RIGHT 0x0100, RESET 0x0080, unused 0x0040, L 0x0020, R 0x0010,        *)
(* C_UP 0x0008, C_DOWN 0x0004, C_LEFT 0x0002, C_RIGHT 0x0001.              *)
(***************************************************************************)
Flag(cond, mask) == IF cond THEN mask ELSE 0

\* ANALOG_S8_CENTER and ANALOG_U8_CENTER: per-axis subtraction of the origin,
\* stored at the width of the result.
ANALOG_S8_CENTER(raw, center) ==
    <<WrapS8(raw[1] - center[1]), WrapS8(raw[2] - center[2])>>

ANALOG_U8_CENTER(raw, center) ==
    <<WrapU8(raw[1] - center[1]), WrapU8(raw[2] - center[2])>>

\* ANALOG_U4_TO_U8 of a byte holding two 4-bit axes: each nibble is
\* replicated into both halves of its byte.
ANALOG_U4_TO_U8(b) == <<(b \div 16) * 17, (b % 16) * 17>>

\* The capture step without its test of origins->initialized.
CaptureOriginsAlways(origins, stick, c_stick, trig) ==
    [initialized |-> TRUE, stick |-> stick, c_stick |-> c_stick, trig |-> trig]

\* The origins after the capture step of __osContReadGCNInputData.
CaptureOrigins(origins, stick, c_stick, trig) ==
    IF ~origins.initialized
    THEN [initialized |-> TRUE, stick |-> stick, c_stick |-> c_stick,
          trig |-> trig]
    ELSE origins

\* The button map without the swap of L and Z.
GCNButtonMapUnswapped(gcn, trig, c_stick) ==
      Flag(HasBit(gcn, 256), 32768)
    + Flag(HasBit(gcn, 512), 16384)
    + Flag(HasBit(gcn, 16), 8192)
    + Flag(HasBit(gcn, 4096), 4096)
    + Flag(HasBit(gcn, 8), 2048)
    + Flag(HasBit(gcn, 4), 1024)
    + Flag(HasBit(gcn, 1), 512)
    + Flag(HasBit(gcn, 2), 256)
    + Flag(HasBit(gcn, 1024), 128)
    + Flag(HasBit(gcn, 2048), 64)
    + Flag(HasBit(gcn, 64) \/ trig[1] > GCN_TRIGGER_THRESHOLD, 32)
    + Flag(HasBit(gcn, 32), 16)
    + Flag(c_stick[2] > GCN_C_STICK_THRESHOLD, 8)
    + Flag(c_stick[2] < -GCN_C_STICK_THRESHOLD, 4)
    + Flag(c_stick[1] < -GCN_C_STICK_THRESHOLD, 2)
    + Flag(c_stick[1] > GCN_C_STICK_THRESHOLD, 1)

\* The button map with the C-directions set at the threshold itself.
GCNButtonMapInclusive(gcn, trig, c_stick) ==
      Flag(HasBit(gcn, 256), 32768)
    + Flag(HasBit(gcn, 512), 16384)
    + Flag(HasBit(gcn, 64) \/ trig[1] > GCN_TRIGGER_THRESHOLD, 8192)
    + Flag(HasBit(gcn, 4096), 4096)
    + Flag(HasBit(gcn, 8), 2048)
    + Flag(HasBit(gcn, 4), 1024)
    + Flag(HasBit(gcn, 1), 512)
    + Flag(HasBit(gcn, 2), 256)
    + Flag(HasBit(gcn, 1024), 128)
    + Flag(HasBit(gcn, 2048), 64)
    + Flag(HasBit(gcn, 16), 32)
    + Flag(HasBit(gcn, 32), 16)
    + Flag(c_stick[2] >= GCN_C_STICK_THRESHOLD, 8)
    + Flag(c_stick[2] <= -GCN_C_STICK_THRESHOLD, 4)
    + Flag(c_stick[1] <= -GCN_C_STICK_THRESHOLD, 2)
    + Flag(c_stick[1] >= GCN_C_STICK_THRESHOLD, 1)

GCNButtonMap(gcn, trig, c_stick) ==
      Flag(HasBit(gcn, 256), 32768)                                      \* A
    + Flag(HasBit(gcn, 512), 16384)                                      \* B
    + Flag(HasBit(gcn, 64) \/ trig[1] > GCN_TRIGGER_THRESHOLD, 8192)     \* Z
    + Flag(HasBit(gcn, 4096), 4096)                                      \* START
    + Flag(HasBit(gcn, 8), 2048)                                         \* D_UP
    + Flag(HasBit(gcn, 4), 1024)                                         \* D_DOWN
    + Flag(HasBit(gcn, 1), 512)                                          \* D_LEFT
    + Flag(HasBit(gcn, 2), 256)                                          \* D_RIGHT
    + Flag(HasBit(gcn, 1024), 128)                                       \* RESET
    + Flag(HasBit(gcn, 2048), 64)                                        \* unused
    + Flag(HasBit(gcn, 16), 32)                                          \* L
    + Flag(HasBit(gcn, 32), 16)                                          \* R
    + Flag(c_stick[2] > GCN_C_STICK_THRESHOLD, 8)                        \* C_UP
    + Flag(c_stick[2] < -GCN_C_STICK_THRESHOLD, 4)                       \* C_DOWN
    + Flag(c_stick[1] < -GCN_C_STICK_THRESHOLD, 2)                       \* C_LEFT
    + Flag(c_stick[1] > GCN_C_STICK_THRESHOLD, 1)                        \* C_RIGHT

osContReadGCNInputData(pad, gcn, stick, c_stick, trig) ==
    LET origins == CaptureOrigins(pad.origins, stick, c_stick, trig)
        cs == ANALOG_S8_CENTER(c_stick, origins.c_stick)
    IN  [pad EXCEPT
            !.origins = origins,
            !.stick = ANALOG_S8_CENTER(stick, origins.stick),
            !.c_stick = cs,
            !.trig = ANALOG_U8_CENTER(trig, origins.trig),
            !.button = GCNButtonMap(gcn, trig, cs)]

(***************************************************************************)
(* osContGetReadDataEx.  The pass is the state                             *)
(*   [ptr, ch, pads, how, repoll, blocks]                                  *)
(* with ptr the cursor, ch the index of the record pad points at, how the  *)
(* way the pass ended ("run" while it runs) and blocks the command blocks  *)
(* decoded so far, each [ch, off, cmd]; repoll is set by the call of       *)
(* start_controller_status_polling.  A read outside ramarray or a record   *)
(* outside pad[0..3] ends the pass with how = "outside".                   *)
(***************************************************************************)
\* A standard block that leaves the record as it was.
DecodeN64Stale(pad, ram, off) == pad

DecodeN64(pad, ram, off) ==
    IF pad.errno = CHNL_ERR_SUCCESS \div 16
    THEN [pad EXCEPT !.button = At(ram, off + 3) * 256 + At(ram, off + 4),
                     !.stick = <<S8(At(ram, off + 5)), S8(At(ram, off + 6))>>,
                     !.c_stick = <<0, 0>>,
                     !.trig = <<0, 0>>]
    ELSE pad

\* The c_stick and trig readings of a short poll, by send.analog_mode; the
\* input bytes 4 .. 7 of the response lie at off + 9 .. off + 12.
ShortPollCStick(ram, off) ==
    CASE At(ram, off + 3) = 1 -> ANALOG_U4_TO_U8(At(ram, off + 9))
      [] At(ram, off + 3) = 2 -> ANALOG_U4_TO_U8(At(ram, off + 9))
      [] OTHER -> <<At(ram, off + 9), At(ram, off + 10)>>

ShortPollTrig(ram, off) ==
    CASE At(ram, off + 3) = 1 -> <<At(ram, off + 10), At(ram, off + 11)>>
      [] At(ram, off + 3) = 2 -> ANALOG_U4_TO_U8(At(ram, off + 10))
      [] At(ram, off + 3) = 3 -> <<At(ram, off + 11), At(ram, off + 12)>>
      [] At(ram, off + 3) = 4 -> <<0, 0>>
      [] OTHER -> ANALOG_U4_TO_U8(At(ram, off + 11))

DecodeGCNShort(pad, ram, off) ==
    IF pad.errno = CHNL_ERR_SUCCESS \div 16
    THEN osContReadGCNInputData(pad, At(ram, off + 5) * 256 + At(ram, off + 6),
             <<At(ram, off + 7), At(ram, off + 8)>>, ShortPollCStick(ram, off),
             ShortPollTrig(ram, off))
    ELSE [pad EXCEPT !.origins.initialized = FALSE]

DecodeGCNLong(pad, ram, off) ==
    IF pad.errno = CHNL_ERR_SUCCESS \div 16
    THEN osContReadGCNInputData(pad, At(ram, off + 5) * 256 + At(ram, off + 6),
             <<At(ram, off + 7), At(ram, off + 8)>>, <<At(ram, off + 9), At(ram, off + 10)>>,
             <<At(ram, off + 11), At(ram, off + 12)>>)
    ELSE [pad EXCEPT !.origins.initialized = FALSE]

\* BlockSize stepping over a short poll by the size of a long poll.
BlockSizeShortAsLong(cmd) ==
    CASE cmd = CONT_CMD_READ_BUTTON -> SizeofReadFormat
      [] cmd = CONT_CMD_GCN_SHORT_POLL -> SizeofGCNLongPollFormat
      [] cmd = CONT_CMD_GCN_LONG_POLL -> SizeofGCNLongPollFormat
      [] OTHER -> 0

BlockSize(cmd) ==
    CASE cmd = CONT_CMD_READ_BUTTON -> SizeofReadFormat
      [] cmd = CONT_CMD_GCN_SHORT_POLL -> SizeofGCNShortPollFormat
      [] cmd = CONT_CMD_GCN_LONG_POLL -> SizeofGCNLongPollFormat
      [] OTHER -> 0

DecodeBlock(pad, ram, off) ==
    CASE At(ram, off + 2) = CONT_CMD_READ_BUTTON -> DecodeN64(pad, ram, off)
      [] At(ram, off + 2) = CONT_CMD_GCN_SHORT_POLL -> DecodeGCNShort(pad, ram, off)
      [] OTHER -> DecodeGCNLong(pad, ram, off)

\* The test against the unshifted error bits, which no errno equals.
IsNoResponseUnshifted(errno) == errno = CHNL_ERR_NORESP

\* The test that ends the pass on an unplugged controller.
IsNoResponse(errno) == errno = CHNL_ERR_NORESP \div 16

\* One turn of the while loop of osContGetReadDataEx.
ReadDataStep(ram, s) ==
    IF s.ptr >= RamArraySize
    THEN [s EXCEPT !.how = "outside"]
    ELSE IF At(ram, s.ptr) = PIF_CMD_END
    THEN [s EXCEPT !.how = "end"]
    ELSE IF At(ram, s.ptr) = PIF_CMD_SKIP_CHNL \/ At(ram, s.ptr) = PIF_CMD_RESET_CHNL
    THEN [s EXCEPT !.ch = s.ch + 1, !.ptr = s.ptr + 1]
    ELSE IF At(ram, s.ptr) = PIF_CMD_NOP
    THEN [s EXCEPT !.ptr = s.ptr + 1]
    ELSE IF s.ch >= MAXCONTROLLERS \/ s.ptr + 2 >= RamArraySize
    THEN [s EXCEPT !.how = "outside"]
    ELSE LET errno == CHNL_ERR(At(ram, s.ptr + 1))
             cmd == At(ram, s.ptr + 2)
             pad == [s.pads[s.ch] EXCEPT !.errno = errno]
         IN  IF IsNoResponse(errno)
             THEN [s EXCEPT !.pads[s.ch] = pad, !.repoll = TRUE, !.how = "noresp"]
             ELSE IF BlockSize(cmd) = 0
             THEN [s EXCEPT !.pads[s.ch] = pad, !.how = "unknown"]
             ELSE IF s.ptr + BlockSize(cmd) > RamArraySize
             THEN [s EXCEPT !.pads[s.ch] = pad, !.how = "outside"]
             ELSE [s EXCEPT !.pads[s.ch] = DecodeBlock(pad, ram, s.ptr),
                            !.blocks = Append(s.blocks,
                                [ch |-> s.ch, off |-> s.ptr, cmd |-> cmd]),
                            !.ptr = s.ptr + BlockSize(cmd),
                            !.ch = s.ch + 1]

RECURSIVE ReadDataLoop(_, _)
ReadDataLoop(ram, s) ==
    IF s.how # "run" THEN s ELSE ReadDataLoop(ram, ReadDataStep(ram, s))

osContGetReadDataEx(ram, pads) ==
    ReadDataLoop(ram, [ptr |-> 0, ch |-> 0, pads |-> pads, how |-> "run",
                       repoll |-> FALSE, blocks |-> <<>>])


(***************************************************************************)
(* The PIF and the controllers behind it (the transport).  A reply is      *)
(* [err, data]: the error bits the PIF puts into size.rx and the bytes the *)
(* controller answers.  PifExec runs a command frame: per channel it keeps *)
(* the header bytes, sets the error bits and, on success, fills the        *)
(* receive area.                                                           *)
(***************************************************************************)
RECURSIVE PifExec(_, _, _, _)
PifExec(ram, reply, ptr, ch) ==
    IF ptr + 1 >= RamArraySize \/ ch >= MAXCONTROLLERS
           \/ At(ram, ptr) = PIF_CMD_END
    THEN ram
    ELSE IF At(ram, ptr) = PIF_CMD_SKIP_CHNL \/ At(ram, ptr) = PIF_CMD_RESET_CHNL
    THEN PifExec(ram, reply, ptr + 1, ch + 1)
    ELSE IF At(ram, ptr) = PIF_CMD_NOP
    THEN PifExec(ram, reply, ptr + 1, ch)
    ELSE LET tx == At(ram, ptr) % 64
             rx == At(ram, ptr + 1) % 64
             sized == Store(ram, ptr + 1, <<rx + reply[ch].err>>)
             answered ==
                 IF reply[ch].err = CHNL_ERR_SUCCESS
                 THEN Store(sized, ptr + 2 + tx, SubSeq(reply[ch].data, 1, rx))
                 ELSE sized
         IN  PifExec(answered, reply, ptr + 2 + tx + rx, ch + 1)

\* The status request frame of osContStartQuery: per channel align0, tx = 1,
\* rx = 3, CONT_CMD_REQUEST_STATUS, three receive bytes and align1.
StatusRequestSlot ==
    <<PIF_CMD_NOP, 1, 3, CONT_CMD_REQUEST_STATUS>> \o NopFill(4)

StatusRequest ==
    Store(ZeroRam, 0,
          StatusRequestSlot \o StatusRequestSlot \o StatusRequestSlot
              \o StatusRequestSlot \o <<PIF_CMD_END>>)

\* What a port answers to the status request: nothing, an N64 controller,
\* a GameCube controller, or the null identifier.
StatusReply(kind) ==
    CASE kind = "n64" -> [err |-> CHNL_ERR_SUCCESS, data |-> <<5, 0, 1>>]
      [] kind = "gcn" -> [err |-> CHNL_ERR_SUCCESS, data |-> <<9, 0, 0>>]
      [] kind = "null" -> [err |-> CHNL_ERR_SUCCESS, data |-> <<255, 255, 0>>]
      [] OTHER -> [err |-> CHNL_ERR_NORESP, data |-> <<255, 255, 255>>]

StatusResponse(kinds) ==
    PifExec(StatusRequest, [p \in Ports |-> StatusReply(kinds[p])], 0, 0)

(***************************************************************************)
(* The operations, as steps of the sequential driver (one flow, each call  *)
(* run to its end).                                                        *)
(***************************************************************************)
\* The status cycle: osContStartQuery, the transfer, and osContGetQueryEx,
\* which is __osContGetInitDataEx on the response.
QueryStatus(kinds) ==
    /\ osContPifRam' = StatusResponse(kinds)
    /\ pifRam' = StatusRequest
    /\ osContLastCmd' = CONT_CMD_REQUEST_STATUS
    /\ osContGetInitDataEx(StatusResponse(kinds))
    /\ UNCHANGED <<gContStatusPolling, ramOverrun, contPads, walk, polls,
                   startRead>>

\* Player assignment (game_input.c), here: port p gets a player.
AssignPlayer(p) ==
    /\ gPortInfo[p].playerNum = 0
    /\ gPortInfo' = [gPortInfo EXCEPT ![p].playerNum = 1]
    /\ UNCHANGED <<gContStatusPolling, osContLastCmd, osContPifRam, ramOverrun,
                   pifRam, contPads, contStatus, bitpattern, walk, polls,
                   startRead>>

\* start_controller_status_polling.
StartStatusPolling ==
    /\ ~gContStatusPolling
    /\ gContStatusPolling' = TRUE
    /\ UNCHANGED <<gPortInfo, osContLastCmd, osContPifRam, ramOverrun, pifRam,
                   contPads, contStatus, bitpattern, walk, polls, startRead>>

\* __osMotorAccessEx(pfs, motorState) with pfs->channel = p and pfs->status
\* as given, on a GameCube port.
osMotorAccessEx(p, status, motorState) ==
    /\ HasBit(status, PFS_MOTOR_INITIALIZED)
    /\ PortIsGCN(gPortInfo[p])
    /\ gPortInfo' = [gPortInfo EXCEPT ![p].gcRumble = motorState]
    /\ osContLastCmd' = PIF_CMD_END
    /\ UNCHANGED <<gContStatusPolling, osContPifRam, ramOverrun, pifRam,
                   contPads, contStatus, bitpattern, walk, polls, startRead>>

\* __osSiRawStartDma returns 0 when it has started the transfer and -1
\* when the SI is busy, and then starts nothing.
DmaStarted == 0
DmaBusy == -1
DmaResults == {DmaStarted, DmaBusy}

\* osContStartReadDataEx and the transfers it starts, wr and rd being what
\* __osSiRawStartDma returns for the write and for the read: the frame is
\* encoded and written unless the last command was a poll, then the PIF's
\* answer is read back into __osContPifRam.  ret is assigned twice, and the
\* second value is returned.
osContStartReadDataEx(reply, wr, rd) ==
    LET packed == osPackReadData(gPortInfo, gContStatusPolling)
        write == osContLastCmd # CONT_CMD_READ_BUTTON
    IN  /\ pifRam' = IF write /\ wr = DmaStarted THEN packed.ram ELSE pifRam
        /\ ramOverrun' = (ramOverrun \/ (write /\ packed.over))
        /\ osContPifRam' = IF rd = DmaStarted THEN PifExec(pifRam', reply, 0, 0)
                           ELSE IF write THEN packed.ram
                           ELSE osContPifRam
        /\ osContLastCmd' = CONT_CMD_READ_BUTTON
        /\ polls' = polls + 1
        /\ startRead' = [called |-> TRUE, marker |-> osContLastCmd,
                                wrote |-> write,
                         write |-> IF write THEN wr ELSE DmaStarted,
                         read |-> rd, ret |-> rd]
        /\ UNCHANGED <<gPortInfo, gContStatusPolling, contPads, contStatus,
                       bitpattern, walk>>

\* osContGetReadDataEx(pad) on the response; start_controller_status_polling
\* turns status repolling on.
GetReadData ==
    \E r \in {osContGetReadDataEx(osContPifRam, contPads)} :
        /\ contPads' = r.pads
        /\ walk' = [how |-> r.how, ptr |-> r.ptr, ch |-> r.ch,
                    blocks |-> r.blocks, repoll |-> r.repoll,
                    before |-> contPads, polling |-> gContStatusPolling]
        /\ gContStatusPolling' = (gContStatusPolling \/ r.repoll)
        /\ UNCHANGED <<gPortInfo, osContLastCmd, osContPifRam, ramOverrun,
                       pifRam, contStatus, bitpattern, polls, startRead>>

ZeroStatus == [error |-> 0, type |-> 0, status |-> 0]

NoWalk == [how |-> "none", ptr |-> 0, ch |-> 0, blocks |-> <<>>,
           repoll |-> FALSE, before |-> [p \in Ports |-> ZeroPad],
           polling |-> FALSE]

\* No osMotorInitEx and no __osMotorAccessEx call yet.
NoMotor ==
    [init |-> [called |-> FALSE, channel |-> 0, steps |-> <<>>, ret |-> 0],
     access |-> [called |-> FALSE, channel |-> 0, state |-> 0, sent |-> <<>>,
                 reply |-> <<>>, prev |-> <<>>, ret |-> 0]]

NoStartRead ==
    [called |-> FALSE, marker |-> 0, wrote |-> FALSE, write |-> 0, read |-> 0,
     ret |-> 0]

\* The state after construction: every global zeroed.
Init ==
    /\ gPortInfo = [p \in Ports |-> ZeroPortInfo]
    /\ gContStatusPolling = FALSE
    /\ osContLastCmd = 0
    /\ osContPifRam = ZeroRam
    /\ ramOverrun = FALSE
    /\ pifRam = ZeroRam
    /\ contPads = [p \in Ports |-> ZeroPad]
    /\ contStatus = [p \in Ports |-> ZeroStatus]
    /\ bitpattern = 0
    /\ walk = NoWalk
    /\ polls = 0
    /\ phase = "boot"
    /\ siAccess = "none"
    /\ pc = [game |-> "idle", rumble |-> "idle"]
    /\ packer = [port |-> 0, ptr |-> 0]
    /\ pfs = [status |-> 0, channel |-> 0]
    /\ motorArg = 0
    /\ rumbleSet = [p \in Ports |-> FALSE]
    /\ callSaw = [p \in Ports |-> {}]
    /\ MotorDataBuf = [p \in Ports |-> [ramarray |-> ZeroRam, pifstatus |-> 0]]
    /\ motor = NoMotor
    /\ startRead = NoStartRead

(***************************************************************************)
(* Spec: one poll cycle over every registry configuration.  The status     *)
(* query plugs the ports, players are assigned, status polling is started  *)
(* and rumble is set in any order; then one frame is encoded, answered     *)
(* and decoded.                                                            *)
(***************************************************************************)
PortKinds == {"none", "n64", "gcn"}
MotorStates == {MOTOR_STOP, MOTOR_START, MOTOR_STOP_HARD}
FillBytes == {PIF_CMD_SKIP_CHNL, PIF_CMD_END, PIF_CMD_NOP}

\* The answers to a poll: every data byte is fill, and port bad (if any)
\* answers with error bits err.
FillReply(fill, bad, err) ==
    [p \in Ports |->
        [err |-> IF p = bad THEN err ELSE CHNL_ERR_SUCCESS,
         data |-> [i \in 1 .. 8 |-> fill]]]

FillReplies ==
    {FillReply(fill, MAXCONTROLLERS, CHNL_ERR_SUCCESS) : fill \in FillBytes}
    \cup {FillReply(PIF_CMD_END, bad, err) :
            bad \in Ports, err \in {CHNL_ERR_OVERRUN, CHNL_ERR_NORESP}}

Boot ==
    /\ phase = "boot"
    /\ \E kinds \in [Ports -> PortKinds] : QueryStatus(kinds)
    /\ phase' = "setup"
    /\ UNCHANGED flowVars

SetupAssign ==
    /\ phase = "setup"
    /\ \E p \in Ports : AssignPlayer(p)
    /\ UNCHANGED <<phase, flowVars>>

SetupPolling ==
    /\ phase = "setup"
    /\ StartStatusPolling
    /\ UNCHANGED <<phase, flowVars>>

SetupRumble ==
    /\ phase = "setup"
    /\ \E p \in Ports, s \in MotorStates :
           osMotorAccessEx(p, PFS_MOTOR_INITIALIZED, s)
    /\ UNCHANGED <<phase, flowVars>>

Poll ==
    /\ phase = "setup"
    /\ \E reply \in FillReplies :
           osContStartReadDataEx(reply, DmaStarted, DmaStarted)
    /\ phase' = "polled"
    /\ UNCHANGED flowVars

Parse ==
    /\ phase = "polled"
    /\ GetReadData
    /\ phase' = "parsed"
    /\ UNCHANGED flowVars

Next == Boot \/ SetupAssign \/ SetupPolling \/ SetupRumble \/ Poll \/ Parse

Spec == Init /\ [][Next]_vars


(***************************************************************************)
(* The frame layout as the specification words it: per channel one skip    *)
(* byte, or one command block of the size of its device class.             *)
(***************************************************************************)
SkipsChannel(info, polling) ==
    ~info.plugged \/ (~polling /\ info.playerNum = 0)

IsExtended(info) == HasBit(info.type, CONT_CONSOLE_GCN)

LayoutSize(info, polling) ==
    IF SkipsChannel(info, polling) THEN 1
    ELSE IF IsExtended(info) THEN SizeofGCNShortPollFormat
    ELSE SizeofReadFormat

RECURSIVE LayoutOffset(_, _, _)
LayoutOffset(info, polling, p) ==
    IF p = 0 THEN 0
    ELSE LayoutOffset(info, polling, p - 1) + LayoutSize(info[p - 1], polling)

LayoutLength(info, polling) == LayoutOffset(info, polling, MAXCONTROLLERS)

EndPositions(ram) == {i \in 0 .. (Len(ram) - 1) : At(ram, i) = PIF_CMD_END}

FrameWritten == phase = "polled"

\* C1: the poll frame written by __osPackReadData stays inside the command
\* buffer (no store at or past its capacity) and holds exactly one
\* end-of-buffer sentinel 0xFE, at the byte right after the last channel's
\* command block or skip byte, for every registry configuration and either
\* value of the status polling flag.
C1_FrameInsideOneTerminator ==
    FrameWritten =>
        /\ ~ramOverrun
        /\ LayoutLength(gPortInfo, gContStatusPolling) < RamArraySize
        /\ EndPositions(pifRam) = {LayoutLength(gPortInfo, gContStatusPolling)}

\* The largest frame: all four ports polled with the extended block.
C1_Witness ==
    /\ FrameWritten
    /\ \A p \in Ports : ~SkipsChannel(gPortInfo[p], gContStatusPolling)
                          /\ IsExtended(gPortInfo[p])
    /\ At(pifRam, MAXCONTROLLERS * SizeofGCNShortPollFormat) = PIF_CMD_END

\* C2: for each channel in the order 0..3 the frame holds, at the channel's
\* place, a single skip byte 0x00 when the channel is unplugged or (status
\* polling is off and no player is assigned), else the extended short-poll
\* block carrying the registry's rumble state when the device class is
\* extended, else the standard read block.
C2_ChannelEmission ==
    FrameWritten =>
        \A p \in Ports :
            LET off == LayoutOffset(gPortInfo, gContStatusPolling, p)
                size == LayoutSize(gPortInfo[p], gContStatusPolling)
                got == SubSeq(pifRam, off + 1, off + size)
            IN  IF SkipsChannel(gPortInfo[p], gContStatusPolling)
                THEN got = <<PIF_CMD_SKIP_CHNL>>
                ELSE IF IsExtended(gPortInfo[p])
                THEN got = sGCNWriteFormatShort(gPortInfo[p].gcRumble)
                ELSE got = sN64WriteFormat

\* A frame with a skipped unassigned port, a standard block and an extended
\* block that carries a rumble state other than stop.
C2_Witness ==
    /\ FrameWritten
    /\ ~gContStatusPolling
    /\ \E p \in Ports : gPortInfo[p].plugged /\ gPortInfo[p].playerNum = 0
    /\ \E p \in Ports : ~SkipsChannel(gPortInfo[p], gContStatusPolling)
                          /\ ~IsExtended(gPortInfo[p])
    /\ \E p \in Ports :
           /\ ~SkipsChannel(gPortInfo[p], gContStatusPolling)
           /\ IsExtended(gPortInfo[p])
           /\ gPortInfo[p].gcRumble = MOTOR_STOP_HARD
           /\ At(pifRam, LayoutOffset(gPortInfo, gContStatusPolling, p) + 4)
                  = MOTOR_STOP_HARD


PassDone == phase = "parsed"

ExpectedCmd(info) ==
    IF IsExtended(info) THEN CONT_CMD_GCN_SHORT_POLL ELSE CONT_CMD_READ_BUTTON

\* C3: on a frame built by __osPackReadData and answered with its header
\* bytes kept, osContGetReadDataEx decodes each command block for the
\* channel the encoder wrote it for (skip bytes advance channel and cursor
\* by 1, a block advances the cursor by its size and the channel by 1): the
\* decoded blocks are exactly the polled channels before the stop, each at
\* its place in the layout; the pass stops at the end sentinel with channel
\* index 4, or at a block answered NoResponse; the channel index never
\* exceeds 4 and the cursor never leaves the buffer.
C3_DecoderFollowsEncoder ==
    PassDone =>
        /\ walk.how \in {"end", "noresp"}
        /\ walk.ch <= MAXCONTROLLERS
        /\ walk.ptr < RamArraySize
        /\ \A i \in 1 .. Len(walk.blocks) :
               LET b == walk.blocks[i]
               IN  /\ b.ch \in Ports
                   /\ ~SkipsChannel(gPortInfo[b.ch], walk.polling)
                   /\ b.off = LayoutOffset(gPortInfo, walk.polling, b.ch)
                   /\ b.cmd = ExpectedCmd(gPortInfo[b.ch])
        /\ \A p \in Ports :
               (p < walk.ch /\ ~SkipsChannel(gPortInfo[p], walk.polling))
                   => \E i \in 1 .. Len(walk.blocks) : walk.blocks[i].ch = p
        /\ walk.how = "end" =>
               /\ walk.ch = MAXCONTROLLERS
               /\ walk.ptr = LayoutLength(gPortInfo, walk.polling)
        /\ walk.how = "noresp" =>
               /\ walk.ch \in Ports
               /\ ~SkipsChannel(gPortInfo[walk.ch], walk.polling)
               /\ walk.ptr = LayoutOffset(gPortInfo, walk.polling, walk.ch)
               /\ CHNL_ERR(At(osContPifRam, walk.ptr + 1)) = CHNL_ERR_NORESP \div 16

\* A pass that ran to the end sentinel over a frame starting with a skip
\* byte and holding a standard and an extended block, the data bytes of the
\* answer all equal to the end sentinel.
C3_Witness ==
    /\ PassDone
    /\ walk.how = "end"
    /\ Len(walk.blocks) >= 2
    /\ walk.blocks[1].ch >= 1
    /\ \E i, j \in 1 .. Len(walk.blocks) :
           /\ walk.blocks[i].cmd = CONT_CMD_READ_BUTTON
           /\ walk.blocks[j].cmd = CONT_CMD_GCN_SHORT_POLL
           /\ At(osContPifRam, walk.blocks[j].off + 5) = PIF_CMD_END


(***************************************************************************)
(* SpecPoll: repeated poll cycles in status polling mode (every plugged    *)
(* port is polled).  Each answer gives all ports the same raw reading and  *)
(* lets at most one port answer with an error; after a pass that called    *)
(* start_controller_status_polling the status query may run again.         *)
(***************************************************************************)
MaxPolls == 3

PollKinds ==
    {<<"gcn", "n64", "gcn", "gcn">>, <<"n64", "gcn", "none", "gcn">>}

KindsOf(t) == [p \in Ports |-> t[p + 1]]

\* Raw input bytes of an answer: buttons (2), stick x, y, c_stick x, y,
\* trigger l, r.  A standard block takes the first four.
ReadingA == <<0, 0, 128, 128, 128, 128, 16, 16>>
ReadingB == <<1, 16, 144, 112, 200, 100, 120, 16>>

ReadingReply(reading, bad, err) ==
    [p \in Ports |->
        [err |-> IF p = bad THEN err ELSE CHNL_ERR_SUCCESS, data |-> reading]]

PollReplies ==
    {ReadingReply(r, MAXCONTROLLERS, CHNL_ERR_SUCCESS) : r \in {ReadingA, ReadingB}}
    \cup {ReadingReply(r, bad, err) :
            r \in {ReadingA, ReadingB}, bad \in Ports,
            err \in {CHNL_ERR_OVERRUN, CHNL_ERR_NORESP}}

PollMode ==
    /\ phase = "boot"
    /\ StartStatusPolling
    /\ phase' = "query"
    /\ UNCHANGED flowVars

PollQuery ==
    /\ phase = "query"
    /\ \E t \in PollKinds : QueryStatus(KindsOf(t))
    /\ phase' = "setup"
    /\ UNCHANGED flowVars

PollStart ==
    /\ phase \in {"setup", "parsed"}
    /\ polls < MaxPolls
    /\ \E reply \in PollReplies :
           osContStartReadDataEx(reply, DmaStarted, DmaStarted)
    /\ phase' = "polled"
    /\ UNCHANGED flowVars

PollParse ==
    /\ phase = "polled"
    /\ GetReadData
    /\ phase' = "parsed"
    /\ UNCHANGED flowVars

PollRequery ==
    /\ phase = "parsed"
    /\ walk.repoll
    /\ \E t \in PollKinds : QueryStatus(KindsOf(t))
    /\ phase' = "setup"
    /\ UNCHANGED flowVars

NextPoll == PollMode \/ PollQuery \/ PollStart \/ PollParse \/ PollRequery

SpecPoll == Init /\ [][NextPoll]_vars


\* The error code of channel p's command block in the answer of the last
\* pass, and whether the encoder gave p a command block.
Blocked(p) == ~SkipsChannel(gPortInfo[p], walk.polling)

AnsweredErr(p) ==
    CHNL_ERR(At(osContPifRam, LayoutOffset(gPortInfo, walk.polling, p) + 1))

\* Channel k is the first whose block is answered NoResponse.
FirstNoResponse(k) ==
    /\ Blocked(k)
    /\ AnsweredErr(k) = CHNL_ERR_NORESP \div 16
    /\ \A p \in Ports :
           (p < k /\ Blocked(p)) => AnsweredErr(p) # CHNL_ERR_NORESP \div 16

\* C4: when the pass meets a command block on channel k answered with
\* NoResponse it calls start_controller_status_polling and stops: the pass
\* ends at channel k and the input records of channels k+1..3 are the ones
\* the pass started with, whatever their blocks contain.
C4_NoResponseAborts ==
    PassDone =>
        \A k \in Ports :
            FirstNoResponse(k) =>
                /\ walk.how = "noresp"
                /\ walk.ch = k
                /\ walk.repoll
                /\ gContStatusPolling
                /\ \A i \in 1 .. Len(walk.blocks) : walk.blocks[i].ch < k
                /\ \A j \in Ports : j > k => contPads[j] = walk.before[j]

\* NoResponse on a channel while a later channel's block is answered with
\* success and its record still holds the error of an earlier pass.
C4_Witness ==
    /\ PassDone
    /\ \E k \in Ports, j \in Ports :
           /\ FirstNoResponse(k)
           /\ j > k
           /\ Blocked(j)
           /\ AnsweredErr(j) = CHNL_ERR_SUCCESS \div 16
           /\ contPads[j].errno # CHNL_ERR_SUCCESS \div 16

\* C6 (as claimed): an extended channel whose origin is initialized (it
\* answered with success before) and whose block the pass meets with a
\* non-success error code (NoResponse, overrun or collision) has its
\* calibration origin invalidated by the pass.
C6_ErrorInvalidatesOrigin ==
    PassDone =>
        \A p \in Ports :
            ( /\ Blocked(p)
              /\ IsExtended(gPortInfo[p])
              /\ p <= walk.ch
              /\ walk.before[p].origins.initialized
              /\ AnsweredErr(p) # CHNL_ERR_SUCCESS \div 16 )
                => ~contPads[p].origins.initialized

Baselines(pad) == <<pad.origins.stick, pad.origins.c_stick, pad.origins.trig>>

\* C7: across poll decode passes the stored baselines of a channel (primary
\* stick, secondary stick, trigger pair) change only in a step that starts
\* with the origin uninitialized and captures it; while the origin stays
\* initialized no successful extended read changes them.
C7_OriginKept ==
    [][\A p \in Ports :
           Baselines(contPads'[p]) # Baselines(contPads[p])
               => (~contPads[p].origins.initialized
                   /\ contPads'[p].origins.initialized)]_vars

\* A successful extended read whose raw stick reading differs from the
\* stored baseline: a later read that was centered against the kept origin.
C7_Witness ==
    /\ PassDone
    /\ \E p \in Ports :
           /\ Blocked(p)
           /\ IsExtended(gPortInfo[p])
           /\ AnsweredErr(p) = CHNL_ERR_SUCCESS \div 16
           /\ p < walk.ch
           /\ walk.before[p].origins.initialized
           /\ contPads[p].origins.initialized
           /\ At(osContPifRam, LayoutOffset(gPortInfo, walk.polling, p) + 7)
                  # contPads[p].origins.stick[1]
           /\ contPads[p].stick[1] # 0


\* The input values of a record, and whether the pass met channel p's
\* block (no earlier block was answered NoResponse) with a success code.
InputOf(pad) == <<pad.button, pad.stick, pad.c_stick, pad.trig>>

DecodedNow(p) ==
    /\ Blocked(p)
    /\ AnsweredErr(p) = 0
    /\ \A k \in Ports : (k < p /\ Blocked(k)) => AnsweredErr(k) # 8

\* C13 (as claimed): after a poll decode pass no channel's record carries
\* button or analog values of an earlier pass: a channel the pass did not
\* decode with success (skipped, answered with an error, or after an
\* aborted block) holds no input values.
C13_NoRecordKeepsEarlierInput ==
    PassDone =>
        \A p \in Ports :
            ~DecodedNow(p) => InputOf(contPads[p]) = <<0, <<0, 0>>, <<0, 0>>, <<0, 0>>>>

\* C13 (amended): a poll decode pass overwrites the input values of each
\* channel whose block it decodes with success (a standard channel holds
\* the buttons and stick of this pass's answer and zero c_stick and
\* triggers, an extended channel this pass's A button); every other
\* channel (skipped, answered with an error, or after an aborted block)
\* keeps the buttons and analog values it had before the pass.
C13_DecodedRecordsOverwritten ==
    PassDone =>
        \A p \in Ports :
            LET off == LayoutOffset(gPortInfo, walk.polling, p)
            IN  IF DecodedNow(p)
                THEN /\ contPads[p].errno = 0
                     /\ IsExtended(gPortInfo[p]) =>
                            (HasBit(contPads[p].button, 32768)
                                <=> HasBit(At(osContPifRam, off + 5), 1))
                     /\ ~IsExtended(gPortInfo[p]) =>
                            InputOf(contPads[p]) =
                                <<At(osContPifRam, off + 3) * 256
                                      + At(osContPifRam, off + 4),
                                  <<S8(At(osContPifRam, off + 5)),
                                    S8(At(osContPifRam, off + 6))>>,
                                  <<0, 0>>, <<0, 0>>>>
                ELSE InputOf(contPads[p]) = InputOf(walk.before[p])

\* A pass that decodes a standard channel to new values while another
\* channel, not decoded, still holds the buttons of an earlier pass.
C13_Witness ==
    /\ PassDone
    /\ \E p \in Ports, q \in Ports :
           /\ DecodedNow(p)
           /\ ~IsExtended(gPortInfo[p])
           /\ InputOf(contPads[p]) # InputOf(walk.before[p])
           /\ ~DecodedNow(q)
           /\ contPads[q].button # 0


(***************************************************************************)
(* SpecStatus: repeated status queries, each port answering in any way,    *)
(* and the polls that follow them.                                         *)
(***************************************************************************)
StatusKinds == {"none", "n64", "gcn", "null"}

StatusProfiles ==
    {k \in [Ports -> StatusKinds] :
        /\ k[0] \in {"none", "gcn"}
        /\ k[2] \in {"none", "gcn"}
        /\ k[3] \in {"none", "n64"}}

StatusCycle ==
    /\ phase \in {"boot", "status", "statuspolled"}
    /\ \E kinds \in StatusProfiles : QueryStatus(kinds)
    /\ phase' = "status"
    /\ UNCHANGED flowVars

\* start_controller_status_polling: from now on every plugged port is polled.
StatusMode ==
    /\ phase = "status"
    /\ StartStatusPolling
    /\ UNCHANGED <<phase, flowVars>>

\* The poll that follows a status query.
StatusPoll ==
    /\ phase = "status"
    /\ polls < MaxPolls
    /\ osContStartReadDataEx(
           ReadingReply(ReadingA, MAXCONTROLLERS, CHNL_ERR_SUCCESS),
           DmaStarted, DmaStarted)
    /\ phase' = "statuspolled"
    /\ UNCHANGED flowVars

NextStatus == StatusCycle \/ StatusMode \/ StatusPoll

SpecStatus == Init /\ [][NextStatus]_vars

\* C5 (as claimed): after a status decode every channel whose slot carries
\* a non-success error code is unplugged in the registry and has its mask
\* bit clear, whatever the registry held before.
C5_ErrorLeavesUnplugged ==
    phase = "status" =>
        \A p \in Ports :
            contStatus[p].error # CHNL_ERR_SUCCESS \div 16
                => (~gPortInfo[p].plugged /\ ~HasBit(bitpattern, 2 ^ p))

\* The nibble error code and the bytes of channel p's slot in the status
\* response: size.rx at 8p + 2, the type bytes at 8p + 4 and 8p + 5, the
\* status byte at 8p + 6.
SlotErr(p) == ((osContPifRam[8 * p + 3] \div 64) % 4) * 4

SlotType(p) == osContPifRam[8 * p + 6] * 256 + osContPifRam[8 * p + 5]

\* C16: after __osContGetInitDataEx bit i of the plugged mask is set
\* exactly when the slot of channel i carries the success code, and each
\* such channel is plugged in the registry; when all four slots carry
\* success the mask is 0b1111 and each status record holds the decoded
\* type, the status byte and the success code.
C16_MaskMatchesSlots ==
    phase = "status" =>
        /\ \A p \in Ports :
               /\ HasBit(bitpattern, 2 ^ p) <=> SlotErr(p) = 0
               /\ SlotErr(p) = 0 => gPortInfo[p].plugged
        /\ (\A p \in Ports : SlotErr(p) = 0) =>
               /\ bitpattern = 15
               /\ \A p \in Ports :
                      contStatus[p] = [error |-> 0, type |-> SlotType(p),
                                       status |-> osContPifRam[8 * p + 7]]

\* All four slots successful, one of them an extended controller and one
\* a standard controller with its status byte set.
C16_Witness ==
    /\ phase = "status"
    /\ bitpattern = 15
    /\ \A p \in Ports : SlotErr(p) = 0 /\ gPortInfo[p].plugged
    /\ contStatus[2].type = 9
    /\ contStatus[3] = [error |-> 0, type |-> 5, status |-> 1]

\* C17: on a successful status slot the status record's type is the wire
\* field with its bytes swapped and the registry type is that type, the
\* null type 0xFFFF being recorded as the standard controller (0x0005);
\* the poll that follows gives a channel that reported the null type the
\* standard read block, not the short-poll block.
C17_TypeSwappedNullIsStandard ==
    /\ phase = "status" =>
           \A p \in Ports :
               SlotErr(p) = 0 =>
                   /\ contStatus[p].type = SlotType(p)
                   /\ gPortInfo[p].type =
                          IF SlotType(p) = 65535 THEN 5 ELSE SlotType(p)
    /\ phase = "statuspolled" =>
           \A p \in Ports :
               (/\ contStatus[p].error = 0
                /\ contStatus[p].type = 65535
                /\ gContStatusPolling) =>
                   LET off == LayoutOffset(gPortInfo, gContStatusPolling, p)
                   IN  /\ gPortInfo[p].type = 5
                       /\ SubSeq(pifRam, off + 1, off + 3) = <<1, 4, 1>>

\* A poll frame for a registry with a channel that reported the null type
\* behind an extended controller.
C17_Witness ==
    /\ phase = "statuspolled"
    /\ gContStatusPolling
    /\ contStatus[0] = [error |-> 0, type |-> 9, status |-> 0]
    /\ contStatus[1] = [error |-> 0, type |-> 65535, status |-> 0]
    /\ SubSeq(pifRam, 1, 3) = <<3, 8, 64>>
    /\ SubSeq(pifRam, 14, 16) = <<1, 4, 1>>

(***************************************************************************)
(* SpecFlows: the game flow and the rumble flow, interleaved at every      *)
(* statement that reads or writes shared state and at every blocking       *)
(* call.  The game flow runs status cycles and poll cycles                 *)
(* (osContStartReadDataEx, the caller's wait for the read transfer, then   *)
(* osContGetReadDataEx); the rumble flow runs osMotorInitEx and            *)
(* __osMotorAccessEx on a GameCube port.                                   *)
(***************************************************************************)
FlowKinds ==
    {<<"gcn", "n64", "none", "none">>, <<"gcn", "none", "none", "none">>}

FlowReplies ==
    {ReadingReply(ReadingA, MAXCONTROLLERS, CHNL_ERR_SUCCESS),
     ReadingReply(ReadingA, 1, CHNL_ERR_NORESP)}

seqVars ==
    <<gPortInfo, gContStatusPolling, osContLastCmd, osContPifRam, ramOverrun,
      pifRam, contPads, contStatus, bitpattern, walk, polls>>

FlowMode ==
    /\ phase = "boot"
    /\ StartStatusPolling
    /\ phase' = "run"
    /\ UNCHANGED flowVars

\* The status exchange of osContStartQuery, made under the gate, up to the
\* arrival of the response.
GameQuery ==
    /\ phase = "run"
    /\ pc.game = "idle"
    /\ siAccess = "none"
    /\ \E t \in FlowKinds : osContPifRam' = StatusResponse(KindsOf(t))
    /\ pifRam' = StatusRequest
    /\ osContLastCmd' = CONT_CMD_REQUEST_STATUS
    /\ pc' = [pc EXCEPT !.game = "initdata"]
    /\ UNCHANGED <<gPortInfo, gContStatusPolling, ramOverrun, contPads,
                   contStatus, bitpattern, walk, polls, phase, siAccess,
                   packer, pfs, motorArg, rumbleSet, callSaw>>
    /\ UNCHANGED <<MotorDataBuf, motor, startRead>>

\* osContGetQueryEx: __osContGetInitDataEx on the response.
GameInitData ==
    /\ pc.game = "initdata"
    /\ osContGetInitDataEx(osContPifRam)
    /\ pc' = [pc EXCEPT !.game = "idle"]
    /\ UNCHANGED <<gContStatusPolling, osContLastCmd, osContPifRam, ramOverrun,
                   pifRam, contPads, walk, polls, phase, siAccess, packer, pfs,
                   motorArg, rumbleSet, callSaw>>
    /\ UNCHANGED <<MotorDataBuf, motor, startRead>>

\* osContStartReadDataEx: __osSiGetAccess.
GameGetAccess ==
    /\ phase = "run"
    /\ pc.game = "idle"
    /\ siAccess = "none"
    /\ \E p \in Ports : gPortInfo[p].plugged
    /\ siAccess' = "game"
    /\ callSaw' = [p \in Ports |->
                      IF rumbleSet[p] THEN {gPortInfo[p].gcRumble} ELSE {}]
    /\ pc' = [pc EXCEPT !.game = "srd_check"]
    /\ UNCHANGED <<seqVars, phase, packer, pfs, motorArg, rumbleSet>>
    /\ UNCHANGED <<MotorDataBuf, motor, startRead>>

\* if (__osContLastCmd != CONT_CMD_READ_BUTTON)
GameCheck ==
    /\ pc.game = "srd_check"
    /\ pc' = [pc EXCEPT !.game = IF osContLastCmd # CONT_CMD_READ_BUTTON
                                  THEN "srd_zero" ELSE "srd_read"]
    /\ startRead' = [NoStartRead EXCEPT !.marker = osContLastCmd]
    /\ UNCHANGED <<seqVars, phase, siAccess, packer, pfs, motorArg, rumbleSet,
                   callSaw>>
    /\ UNCHANGED <<MotorDataBuf, motor>>

\* __osPackReadData: bzero of ramarray.
GamePackZero ==
    /\ pc.game = "srd_zero"
    /\ osContPifRam' = ZeroRam
    /\ packer' = [port |-> 0, ptr |-> 0]
    /\ pc' = [pc EXCEPT !.game = "srd_pack"]
    /\ UNCHANGED <<gPortInfo, gContStatusPolling, osContLastCmd, ramOverrun,
                   pifRam, contPads, contStatus, bitpattern, walk, polls, phase,
                   siAccess, pfs, motorArg, rumbleSet, callSaw>>
    /\ UNCHANGED <<MotorDataBuf, motor, startRead>>

\* __osPackReadData: one iteration of the loop over the ports.
GamePackPort ==
    /\ pc.game = "srd_pack"
    /\ packer.port < MAXCONTROLLERS
    /\ \E st \in {PackPort(gPortInfo[packer.port], gContStatusPolling,
                     [ram |-> osContPifRam, ptr |-> packer.ptr,
                      over |-> ramOverrun])} :
           /\ osContPifRam' = st.ram
           /\ ramOverrun' = st.over
           /\ packer' = [port |-> packer.port + 1, ptr |-> st.ptr]
    /\ UNCHANGED <<gPortInfo, gContStatusPolling, osContLastCmd, pifRam,
                   contPads, contStatus, bitpattern, walk, polls, phase,
                   siAccess, pc, pfs, motorArg, rumbleSet, callSaw>>
    /\ UNCHANGED <<MotorDataBuf, motor, startRead>>

\* __osPackReadData: *ptr = PIF_CMD_END.
GamePackEnd ==
    /\ pc.game = "srd_pack"
    /\ packer.port = MAXCONTROLLERS
    /\ \E st \in {PackEnd([ram |-> osContPifRam, ptr |-> packer.ptr,
                           over |-> ramOverrun])} :
           /\ osContPifRam' = st.ram
           /\ ramOverrun' = st.over
    /\ pc' = [pc EXCEPT !.game = "srd_write"]
    /\ UNCHANGED <<gPortInfo, gContStatusPolling, osContLastCmd, pifRam,
                   contPads, contStatus, bitpattern, walk, polls, phase,
                   siAccess, packer, pfs, motorArg, rumbleSet, callSaw>>
    /\ UNCHANGED <<MotorDataBuf, motor, startRead>>

\* __osSiRawStartDma(OS_WRITE, &__osContPifRam).
GameWrite ==
    /\ pc.game = "srd_write"
    /\ pifRam' = osContPifRam
    /\ startRead' = [startRead EXCEPT !.wrote = TRUE]
    /\ pc' = [pc EXCEPT !.game = "srd_wait"]
    /\ UNCHANGED <<gPortInfo, gContStatusPolling, osContLastCmd, osContPifRam,
                   ramOverrun, contPads, contStatus, bitpattern, walk, polls,
                   phase, siAccess, packer, pfs, motorArg, rumbleSet, callSaw>>
    /\ UNCHANGED <<MotorDataBuf, motor>>

\* osRecvMesg(mq, NULL, OS_MESG_BLOCK): the command has executed.
GameWait ==
    /\ pc.game = "srd_wait"
    /\ pc' = [pc EXCEPT !.game = "srd_read"]
    /\ UNCHANGED <<seqVars, phase, siAccess, packer, pfs, motorArg, rumbleSet,
                   callSaw>>
    /\ UNCHANGED <<MotorDataBuf, motor, startRead>>

\* __osSiRawStartDma(OS_READ, &__osContPifRam): the read is started.
GameRead ==
    /\ pc.game = "srd_read"
    /\ pc' = [pc EXCEPT !.game = "srd_mark"]
    /\ UNCHANGED <<seqVars, phase, siAccess, packer, pfs, motorArg, rumbleSet,
                   callSaw>>
    /\ UNCHANGED <<MotorDataBuf, motor, startRead>>

\* __osContLastCmd = CONT_CMD_READ_BUTTON.
GameMark ==
    /\ pc.game = "srd_mark"
    /\ osContLastCmd' = CONT_CMD_READ_BUTTON
    /\ pc' = [pc EXCEPT !.game = "srd_release"]
    /\ UNCHANGED <<gPortInfo, gContStatusPolling, osContPifRam, ramOverrun,
                   pifRam, contPads, contStatus, bitpattern, walk, polls, phase,
                   siAccess, packer, pfs, motorArg, rumbleSet, callSaw>>
    /\ UNCHANGED <<MotorDataBuf, motor, startRead>>

\* __osSiRelAccess and the return to the caller.
GameRelease ==
    /\ pc.game = "srd_release"
    /\ siAccess' = "none"
    /\ startRead' = [startRead EXCEPT !.called = TRUE]
    /\ pc' = [pc EXCEPT !.game = "srd_done"]
    /\ UNCHANGED <<seqVars, phase, packer, pfs, motorArg, rumbleSet, callSaw>>
    /\ UNCHANGED <<MotorDataBuf, motor>>

\* The caller's osRecvMesg: the read transfer has brought the PIF's answer
\* into __osContPifRam.
GameRecvMesg ==
    /\ pc.game = "srd_done"
    /\ \E reply \in FlowReplies : osContPifRam' = PifExec(pifRam, reply, 0, 0)
    /\ callSaw' = [p \in Ports |-> {}]
    /\ pc' = [pc EXCEPT !.game = "parse"]
    /\ UNCHANGED <<gPortInfo, gContStatusPolling, osContLastCmd, ramOverrun,
                   pifRam, contPads, contStatus, bitpattern, walk, polls, phase,
                   siAccess, packer, pfs, motorArg, rumbleSet>>
    /\ UNCHANGED <<MotorDataBuf, motor, startRead>>

\* osContGetReadDataEx(pad).
GameParse ==
    /\ pc.game = "parse"
    /\ GetReadData
    /\ pc' = [pc EXCEPT !.game = "idle"]
    /\ UNCHANGED <<phase, siAccess, packer, pfs, motorArg, rumbleSet, callSaw,
                   MotorDataBuf, motor>>

\* osMotorInitEx(mq, pfs, channel) on a GameCube port: no handshake.
RumbleInit ==
    /\ pc.rumble = "idle"
    /\ \E p \in Ports :
           /\ PortIsGCN(gPortInfo[p])
           /\ pfs' = [status |-> PFS_MOTOR_INITIALIZED, channel |-> p]
    /\ UNCHANGED <<seqVars, phase, siAccess, pc, packer, motorArg, rumbleSet,
                   callSaw>>
    /\ UNCHANGED <<MotorDataBuf, motor, startRead>>

\* __osMotorAccessEx(pfs, motorState): the tests of pfs->status and of the
\* port's type.
RumbleCall ==
    /\ pc.rumble = "idle"
    /\ HasBit(pfs.status, PFS_MOTOR_INITIALIZED)
    /\ PortIsGCN(gPortInfo[pfs.channel])
    /\ \E s \in MotorStates : motorArg' = s
    /\ pc' = [pc EXCEPT !.rumble = "ma_set"]
    /\ UNCHANGED <<seqVars, phase, siAccess, packer, pfs, rumbleSet, callSaw>>
    /\ UNCHANGED <<MotorDataBuf, motor, startRead>>

\* gPortInfo[channel].gcRumble = motorState.
RumbleSet ==
    /\ pc.rumble = "ma_set"
    /\ gPortInfo' = [gPortInfo EXCEPT ![pfs.channel].gcRumble = motorArg]
    /\ callSaw' = [callSaw EXCEPT ![pfs.channel] =
                      IF @ = {} THEN {} ELSE @ \cup {motorArg}]
    /\ pc' = [pc EXCEPT !.rumble = "ma_mark"]
    /\ UNCHANGED <<gContStatusPolling, osContLastCmd, osContPifRam, ramOverrun,
                   pifRam, contPads, contStatus, bitpattern, walk, polls, phase,
                   siAccess, packer, pfs, motorArg, rumbleSet>>
    /\ UNCHANGED <<MotorDataBuf, motor, startRead>>

\* __osContLastCmd = PIF_CMD_END, and the return.
RumbleMark ==
    /\ pc.rumble = "ma_mark"
    /\ osContLastCmd' = PIF_CMD_END
    /\ rumbleSet' = [rumbleSet EXCEPT ![pfs.channel] = TRUE]
    /\ pc' = [pc EXCEPT !.rumble = "idle"]
    /\ UNCHANGED <<gPortInfo, gContStatusPolling, osContPifRam, ramOverrun,
                   pifRam, contPads, contStatus, bitpattern, walk, polls, phase,
                   siAccess, packer, pfs, motorArg, callSaw>>
    /\ UNCHANGED <<MotorDataBuf, motor, startRead>>

(***************************************************************************)
(* motor.c: osMotorInitEx and the standard-protocol branch of              *)
(* __osMotorAccessEx, one step per statement that touches shared state and *)
(* per call that blocks.  The steps take what the accessory answers from   *)
(* the set they are given.                                                 *)
(***************************************************************************)
PFS_ERR_SUCCESS == 0
PFS_ERR_NOPACK == 1
PFS_ERR_NEW_PACK == 2
PFS_ERR_CONTRFAIL == 4
PFS_ERR_INVALID == 5
PFS_ERR_DEVICE == 11
PFS_STATUS_NONE == 0
PIF_STATUS_EXE == 1
ACCESSORY_ID_RUMBLE == 128
ACCESSORY_ID_TRANSFER_OFF == 254
CONT_CMD_READ_MEMPAK == 2
CONT_CMD_WRITE_MEMPAK == 3
MOTOR_MASK_N64 == 1
BLOCKSIZE == 32
MotorAckStop == 0
MotorAckStart == 235

\* sizeof(ramwriteformat.fmt.send): cmdID, addr.h, addr.l and data[BLOCKSIZE].
SizeofMotorSend == 35
\* sizeof(ramwriteformat.fmt.recv): datacrc.
SizeofMotorRecv == 1
\* sizeof(__OSContRamWriteFormatAligned): align0, size, send, recv.
SizeofRamWriteFormatAligned == 39
\* CONT_BLOCK_RUMBLE >> 3, and the low address byte with its checksum.
MotorAddrH == 192
MotorAddrL == 27

\* What the locals of _MakeMotorData it never assigns (send.data and
\* recv.datacrc) may hold.
StackBytes == {0, 235}

PfsResults ==
    {PFS_ERR_SUCCESS, PFS_ERR_NOPACK, PFS_ERR_NEW_PACK, PFS_ERR_CONTRFAIL}

DetectBytes == {ACCESSORY_ID_RUMBLE, ACCESSORY_ID_TRANSFER_OFF, 0}

\* Offsets inside a channel's rumble block, from the block's first byte.
MotorOffRx == 2
MotorOffData == 6
MotorOffCrc == 38

\* _MakeMotorData(channel, mdata); g is the value of the unassigned bytes.
MakeMotorData(channel, ram, g) ==
    LET skipped == Store(ram, 0, [i \in 1 .. channel |-> PIF_CMD_SKIP_CHNL])
        block == <<PIF_CMD_NOP, SizeofMotorSend, SizeofMotorRecv,
                   CONT_CMD_WRITE_MEMPAK, MotorAddrH, MotorAddrL>>
                     \o [i \in 1 .. BLOCKSIZE + SizeofMotorRecv |-> g]
    IN  Store(Store(skipped, channel, block),
              channel + SizeofRamWriteFormatAligned, <<PIF_CMD_END>>)

\* The frame __osPfsSelectBank and __osContRamRead leave in the PIF: a pak
\* write or a pak read addressed to the channel.
ProbeFrame(channel, cmd) ==
    Store(Store(ZeroRam, 0, [i \in 1 .. channel |-> PIF_CMD_SKIP_CHNL]),
          channel, <<PIF_CMD_NOP, SizeofMotorSend, SizeofMotorRecv, cmd>>)

\* The check of the verify byte in __osMotorAccessEx.
MotorVerifyStartUnchecked(motorState, err, datacrc) ==
    IF err = CHNL_ERR_SUCCESS \div 16
    THEN IF motorState = MOTOR_STOP
         THEN IF datacrc # MotorAckStop THEN PFS_ERR_CONTRFAIL ELSE err
         ELSE err
    ELSE err

MotorVerify(motorState, err, datacrc) ==
    IF err = CHNL_ERR_SUCCESS \div 16
    THEN IF motorState = MOTOR_STOP
         THEN IF datacrc # MotorAckStop THEN PFS_ERR_CONTRFAIL ELSE err
         ELSE IF datacrc # MotorAckStart THEN PFS_ERR_CONTRFAIL ELSE err
    ELSE err

\* The variables neither osMotorInitEx nor the standard-protocol branch of
\* __osMotorAccessEx touches.
motorFrame ==
    <<gPortInfo, gContStatusPolling, osContPifRam, ramOverrun, contPads,
      contStatus, bitpattern, walk, polls, phase, packer, rumbleSet, callSaw,
      startRead>>

InitReturn(step, result, err) ==
    /\ motor' = [motor EXCEPT
                    !.init.steps = Append(@, [step |-> step, result |-> result]),
                    !.init.called = TRUE,
                    !.init.ret = err]
    /\ pc' = [pc EXCEPT !.rumble = "idle"]

InitGoOn(step, result, next) ==
    /\ motor' = [motor EXCEPT
                    !.init.steps = Append(@, [step |-> step, result |-> result])]
    /\ pc' = [pc EXCEPT !.rumble = next]

\* osMotorInitEx: the assignments to *pfs and the test of the port's type.
MotorInitBegin(channels) ==
    /\ phase \in {"run", "motor"}
    /\ pc.rumble = "idle"
    /\ \E channel \in channels :
           /\ ~PortIsGCN(gPortInfo[channel])
           /\ pfs' = [status |-> PFS_STATUS_NONE, channel |-> channel]
           /\ motor' = [motor EXCEPT !.init = [called |-> FALSE,
                                               channel |-> channel,
                                               steps |-> <<>>, ret |-> 0]]
    /\ pc' = [pc EXCEPT !.rumble = "mi_probe_off"]
    /\ UNCHANGED <<motorFrame, osContLastCmd, pifRam, siAccess, motorArg,
                   MotorDataBuf>>

\* A pak exchange of libultra: made under the gate, it leaves its frame in
\* the PIF and its command in __osContLastCmd.
PakExchange(cmd) ==
    /\ siAccess = "none"
    /\ pifRam' = ProbeFrame(pfs.channel, cmd)
    /\ osContLastCmd' = cmd
    /\ UNCHANGED <<motorFrame, siAccess, pfs, motorArg>>

\* err = __osPfsSelectBank(pfs, ACCESSORY_ID_TRANSFER_OFF), and the tests of
\* err up to the first read.
MotorInitProbeOff(results) ==
    /\ pc.rumble = "mi_probe_off"
    /\ PakExchange(CONT_CMD_WRITE_MEMPAK)
    /\ \E r \in results :
           IF r = PFS_ERR_NEW_PACK
           THEN InitGoOn("ProbeOff", r, "mi_probe_rumble1")
           ELSE IF r # PFS_ERR_SUCCESS
           THEN InitReturn("ProbeOff", r, r)
           ELSE InitGoOn("ProbeOff", r, "mi_detect1")
    /\ UNCHANGED MotorDataBuf

\* err = __osPfsSelectBank(pfs, ACCESSORY_ID_RUMBLE) after a new pack.
MotorInitProbeRumble1(results) ==
    /\ pc.rumble = "mi_probe_rumble1"
    /\ PakExchange(CONT_CMD_WRITE_MEMPAK)
    /\ \E r \in results :
           IF r # PFS_ERR_SUCCESS
           THEN InitReturn("ProbeRumbleBank1", r, r)
           ELSE InitGoOn("ProbeRumbleBank1", r, "mi_detect1")
    /\ UNCHANGED MotorDataBuf

\* The error a step after the first probe returns: a new pack is a
\* communication error.
NewPackReturned(r) == r

NewPackFails(r) == IF r = PFS_ERR_NEW_PACK THEN PFS_ERR_CONTRFAIL ELSE r

\* err = __osContRamRead(mq, channel, CONT_BLOCK_DETECT, data) (1) and the
\* test of data[BLOCKSIZE - 1].
MotorInitDetect1(results, bytes) ==
    /\ pc.rumble = "mi_detect1"
    /\ PakExchange(CONT_CMD_READ_MEMPAK)
    /\ \E r \in results, last \in bytes :
           IF NewPackFails(r) # PFS_ERR_SUCCESS
           THEN InitReturn("Detect1", r, NewPackFails(r))
           ELSE IF last = ACCESSORY_ID_TRANSFER_OFF
           THEN InitReturn("Detect1", r, PFS_ERR_DEVICE)
           ELSE InitGoOn("Detect1", r, "mi_probe_rumble2")
    /\ UNCHANGED MotorDataBuf

\* err = __osPfsSelectBank(pfs, ACCESSORY_ID_RUMBLE).
MotorInitProbeRumble2(results) ==
    /\ pc.rumble = "mi_probe_rumble2"
    /\ PakExchange(CONT_CMD_WRITE_MEMPAK)
    /\ \E r \in results :
           IF NewPackFails(r) # PFS_ERR_SUCCESS
           THEN InitReturn("ProbeRumbleBank2", r, NewPackFails(r))
           ELSE InitGoOn("ProbeRumbleBank2", r, "mi_detect2")
    /\ UNCHANGED MotorDataBuf

\* err = __osContRamRead(mq, channel, CONT_BLOCK_DETECT, data) (2), the test
\* of data[BLOCKSIZE - 1] and _MakeMotorData.
MotorInitDetect2(results, bytes) ==
    /\ pc.rumble = "mi_detect2"
    /\ PakExchange(CONT_CMD_READ_MEMPAK)
    /\ \E r \in results, last \in bytes, g \in StackBytes :
           IF NewPackFails(r) # PFS_ERR_SUCCESS
           THEN /\ InitReturn("Detect2", r, NewPackFails(r))
                /\ UNCHANGED MotorDataBuf
           ELSE IF last # ACCESSORY_ID_RUMBLE
           THEN /\ InitReturn("Detect2", r, PFS_ERR_DEVICE)
                /\ UNCHANGED MotorDataBuf
           ELSE /\ InitGoOn("Detect2", r, "mi_done")
                /\ MotorDataBuf' =
                       [MotorDataBuf EXCEPT ![pfs.channel].ramarray =
                           MakeMotorData(pfs.channel, @, g)]

\* pfs->status = PFS_MOTOR_INITIALIZED; return PFS_ERR_SUCCESS.
MotorInitDone ==
    /\ pc.rumble = "mi_done"
    /\ pfs' = [pfs EXCEPT !.status = PFS_MOTOR_INITIALIZED]
    /\ motor' = [motor EXCEPT !.init.called = TRUE,
                              !.init.ret = PFS_ERR_SUCCESS]
    /\ pc' = [pc EXCEPT !.rumble = "idle"]
    /\ UNCHANGED <<motorFrame, osContLastCmd, pifRam, siAccess, motorArg,
                   MotorDataBuf>>

\* __osMotorAccessEx on a channel that is not initialized.
MotorCallInvalid ==
    /\ phase \in {"run", "motor"}
    /\ pc.rumble = "idle"
    /\ ~HasBit(pfs.status, PFS_MOTOR_INITIALIZED)
    /\ motor' = [motor EXCEPT !.access =
                    [called |-> TRUE, channel |-> pfs.channel, state |-> 0,
                     sent |-> <<>>, reply |-> <<>>, prev |-> <<>>,
                     ret |-> PFS_ERR_INVALID]]
    /\ UNCHANGED <<motorFrame, osContLastCmd, pifRam, siAccess, pc, pfs,
                   motorArg, MotorDataBuf>>

\* __osMotorAccessEx on a standard port: the tests, and
\* motorState &= MOTOR_MASK_N64.
MotorCall(states) ==
    /\ phase \in {"run", "motor"}
    /\ pc.rumble = "idle"
    /\ HasBit(pfs.status, PFS_MOTOR_INITIALIZED)
    /\ ~PortIsGCN(gPortInfo[pfs.channel])
    /\ \E s \in states : motorArg' = s % (MOTOR_MASK_N64 + 1)
    /\ motor' = [motor EXCEPT !.access =
                    [called |-> FALSE, channel |-> pfs.channel, state |-> 0,
                     sent |-> <<>>, reply |-> <<>>,
                     prev |-> IF @.called THEN <<@.state, @.ret>> ELSE <<>>,
                     ret |-> 0]]
    /\ pc' = [pc EXCEPT !.rumble = "ma_access"]
    /\ UNCHANGED <<motorFrame, osContLastCmd, pifRam, siAccess, pfs,
                   MotorDataBuf>>

\* __osSiGetAccess.
MotorGetAccess ==
    /\ pc.rumble = "ma_access"
    /\ siAccess = "none"
    /\ siAccess' = "rumble"
    /\ pc' = [pc EXCEPT !.rumble = "ma_fill"]
    /\ UNCHANGED <<motorFrame, osContLastCmd, pifRam, pfs, motorArg,
                   MotorDataBuf, motor>>

\* pifstatus = PIF_STATUS_EXE and the memset of send.data.
MotorFill ==
    /\ pc.rumble = "ma_fill"
    /\ MotorDataBuf' =
           [MotorDataBuf EXCEPT ![pfs.channel] =
               [ramarray |-> Store(@.ramarray, pfs.channel + MotorOffData,
                                   [i \in 1 .. BLOCKSIZE |-> motorArg]),
                pifstatus |-> PIF_STATUS_EXE]]
    /\ pc' = [pc EXCEPT !.rumble = "ma_end"]
    /\ UNCHANGED <<motorFrame, osContLastCmd, pifRam, siAccess, pfs, motorArg,
                   motor>>

\* The step without the assignment to __osContLastCmd.
MotorMarkKept ==
    /\ pc.rumble = "ma_end"
    /\ pc' = [pc EXCEPT !.rumble = "ma_write"]
    /\ UNCHANGED <<motorFrame, osContLastCmd, pifRam, siAccess, pfs, motorArg,
                   MotorDataBuf, motor>>

\* __osContLastCmd = PIF_CMD_END.
MotorMark ==
    /\ pc.rumble = "ma_end"
    /\ osContLastCmd' = PIF_CMD_END
    /\ pc' = [pc EXCEPT !.rumble = "ma_write"]
    /\ UNCHANGED <<motorFrame, pifRam, siAccess, pfs, motorArg, MotorDataBuf,
                   motor>>

\* __osSiRawStartDma(OS_WRITE, &__MotorDataBuf[channel]); its result is
\* dropped.
MotorWrite ==
    /\ pc.rumble = "ma_write"
    /\ pifRam' = MotorDataBuf[pfs.channel].ramarray
    /\ motor' = [motor EXCEPT !.access.sent =
                    SubSeq(MotorDataBuf[pfs.channel].ramarray,
                           pfs.channel + 1,
                           pfs.channel + SizeofRamWriteFormatAligned + 1)]
    /\ pc' = [pc EXCEPT !.rumble = "ma_wait1"]
    /\ UNCHANGED <<motorFrame, osContLastCmd, siAccess, pfs, motorArg,
                   MotorDataBuf>>

\* osRecvMesg(pfs->queue, NULL, OS_MESG_BLOCK) after the write.
MotorWait1 ==
    /\ pc.rumble = "ma_wait1"
    /\ pc' = [pc EXCEPT !.rumble = "ma_read"]
    /\ UNCHANGED <<motorFrame, osContLastCmd, pifRam, siAccess, pfs, motorArg,
                   MotorDataBuf, motor>>

\* __osSiRawStartDma(OS_READ, &__MotorDataBuf[channel]) and the osRecvMesg
\* after it: the PIF's answer to the frame it holds comes into the buffer.
MotorRead(replies) ==
    /\ pc.rumble = "ma_read"
    /\ \E reply \in replies :
           /\ MotorDataBuf' =
                  [MotorDataBuf EXCEPT ![pfs.channel] =
                      [ramarray |->
                           PifExec(pifRam,
                                   [p \in Ports |->
                                       [err |-> reply.err,
                                        data |-> [i \in 1 .. BLOCKSIZE |->
                                                     reply.ack]]], 0, 0),
                       pifstatus |-> 0]]
           /\ motor' = [motor EXCEPT !.access.reply = <<reply.err, reply.ack>>]
    /\ pc' = [pc EXCEPT !.rumble = "ma_verify"]
    /\ UNCHANGED <<motorFrame, osContLastCmd, pifRam, siAccess, pfs, motorArg>>

\* err = CHNL_ERR(readformat->fmt.size) and the check of recv.datacrc.
MotorCheck ==
    /\ pc.rumble = "ma_verify"
    /\ motor' = [motor EXCEPT
                    !.access.state = motorArg,
                    !.access.ret =
                        MotorVerify(
                            motorArg,
                            CHNL_ERR(At(MotorDataBuf[pfs.channel].ramarray,
                                        pfs.channel + MotorOffRx)),
                            At(MotorDataBuf[pfs.channel].ramarray,
                               pfs.channel + MotorOffCrc))]
    /\ pc' = [pc EXCEPT !.rumble = "ma_release"]
    /\ UNCHANGED <<motorFrame, osContLastCmd, pifRam, siAccess, pfs, motorArg,
                   MotorDataBuf>>

\* __osSiRelAccess and the return of err.
MotorRelease ==
    /\ pc.rumble = "ma_release"
    /\ siAccess' = "none"
    /\ motor' = [motor EXCEPT !.access.called = TRUE]
    /\ pc' = [pc EXCEPT !.rumble = "idle"]
    /\ UNCHANGED <<motorFrame, osContLastCmd, pifRam, pfs, motorArg,
                   MotorDataBuf>>

NextFlows ==
    \/ FlowMode \/ GameQuery \/ GameInitData
    \/ GameGetAccess \/ GameCheck \/ GamePackZero \/ GamePackPort \/ GamePackEnd
    \/ GameWrite \/ GameWait \/ GameRead \/ GameMark \/ GameRelease
    \/ GameRecvMesg \/ GameParse
    \/ RumbleInit \/ RumbleCall \/ RumbleSet \/ RumbleMark

SpecFlows == Init /\ [][NextFlows]_vars


\* The rumble byte of channel p's short-poll block in a frame.
FrameRumble(frame, p) ==
    At(frame, LayoutOffset(gPortInfo, gContStatusPolling, p) + 4)

\* C8 (as claimed): when osContStartReadDataEx returns, the frame in the
\* PIF carries, for every polled GameCube port whose rumble state an
\* __osMotorAccessEx set before the call began, a rumble state the port has
\* held since the call began, however the two flows interleave.
C8_RumbleCarriedByNextPoll ==
    pc.game = "srd_done" =>
        \A p \in Ports :
            (/\ PortIsPolled(gPortInfo[p], gContStatusPolling)
             /\ PortIsGCN(gPortInfo[p])
             /\ callSaw[p] # {})
                => FrameRumble(pifRam, p) \in callSaw[p]

\* The positions of the game flow at which it builds the command buffer,
\* starts a transfer, waits for one, or parses the response.
BufferSteps ==
    {"initdata", "srd_zero", "srd_pack", "srd_write", "srd_wait", "srd_read",
     "srd_done", "parse"}

\* C9 (as claimed): the game flow holds the SI access gate at every step
\* that builds the buffer, starts a transfer, waits for it or parses the
\* response.
C9_BufferStepsUnderGate ==
    pc.game \in BufferSteps => siAccess = "game"

\* C10 (as claimed): every step that changes a registry entry is taken by a
\* flow that holds the SI access gate.
C10_RegistryWritesUnderGate ==
    [][gPortInfo' # gPortInfo => siAccess # "none"]_vars


(***************************************************************************)
(* SpecMotor: the rumble flow alone on standard ports: handshakes over     *)
(* every result of the five probe and detect steps, then motor commands    *)
(* over every answer of the accessory.                                     *)
(***************************************************************************)
MotorKinds ==
    {<<"n64", "gcn", "gcn", "gcn">>, <<"gcn", "gcn", "n64", "gcn">>}

MotorReplies ==
    {[err |-> CHNL_ERR_SUCCESS, ack |-> MotorAckStop],
     [err |-> CHNL_ERR_SUCCESS, ack |-> MotorAckStart],
     [err |-> CHNL_ERR_SUCCESS, ack |-> 255],
     [err |-> CHNL_ERR_NORESP, ack |-> 255]}

MotorBoot ==
    /\ phase = "boot"
    /\ \E t \in MotorKinds : QueryStatus(KindsOf(t))
    /\ phase' = "motor"
    /\ UNCHANGED flowVars

NextMotor ==
    \/ MotorBoot
    \/ MotorInitBegin(Ports)
    \/ MotorInitProbeOff(PfsResults)
    \/ MotorInitProbeRumble1(PfsResults)
    \/ MotorInitDetect1(PfsResults, DetectBytes)
    \/ MotorInitProbeRumble2(PfsResults)
    \/ MotorInitDetect2(PfsResults, DetectBytes)
    \/ MotorInitDone
    \/ MotorCallInvalid
    \/ MotorCall(MotorStates)
    \/ MotorGetAccess \/ MotorFill \/ MotorMark \/ MotorWrite
    \/ MotorWait1 \/ MotorRead(MotorReplies) \/ MotorCheck \/ MotorRelease

SpecMotor == Init /\ [][NextMotor]_vars


\* The verify byte a rumble pak answers to a command, and the block
\* _MakeMotorData caches for a channel, as the protocol has them.
AckFor(state) == IF state = 0 THEN 0 ELSE 235

CachedHeader(channel) ==
    [i \in 1 .. channel |-> 0] \o <<255, 35, 1, 3, 192, 27>>

\* C11: on an initialized standard channel __osMotorAccessEx returns
\* success exactly when the channel answered without error and the verify
\* byte is the one expected for the command (0xEB for Start, 0x00 for
\* Stop), and the communication error when the channel answered with
\* another byte; such an answer leaves the cached block's skip bytes,
\* header and end marker as built, and a Stop answered with 0x00 after a
\* mismatched Start returns success.
C11_MotorAccessVerifies ==
    LET a == motor.access
        ram == MotorDataBuf[a.channel].ramarray
    IN  /\ (a.called /\ a.reply # <<>>) =>
                /\ (a.ret = 0)
                       <=> (a.reply[1] = 0 /\ a.reply[2] = AckFor(a.state))
                /\ (a.reply[1] = 0 /\ a.reply[2] # AckFor(a.state))
                       => a.ret = 4
                /\ (a.prev = <<1, 4>> /\ a.state = 0 /\ a.reply = <<0, 0>>)
                       => a.ret = 0
        /\ (pc.rumble = "ma_release" /\ a.ret = 4) =>
                /\ SubSeq(ram, 1, a.channel + 6) = CachedHeader(a.channel)
                /\ \A i \in 1 .. 32 : ram[a.channel + 6 + i] = a.state
                /\ ram[a.channel + 40] = 254

C11_Witness ==
    /\ motor.access.called
    /\ motor.access.prev = <<1, 4>>
    /\ motor.access.state = 0
    /\ motor.access.reply = <<0, 0>>
    /\ motor.access.ret = 0
    /\ motor.access.channel = 2

\* C12 (as claimed): a non-success result of any probe or detect step of
\* osMotorInitEx, the new-pack code included, makes the init return the
\* communication error and leaves the channel not initialized.
C12_AnyFailureIsCommError ==
    motor.init.called =>
        ((\E i \in 1 .. Len(motor.init.steps) : motor.init.steps[i].result # 0)
            => (motor.init.ret = 4 /\ ~HasBit(pfs.status, 8)))

\* C12 (amended): a non-success result of a probe or detect step, other
\* than the new-pack code at ProbeOff (which leads to ProbeRumbleBank1),
\* ends the init at that step with a non-success return and the channel
\* not initialized; the return is the communication error for the
\* new-pack code at Detect1, ProbeRumbleBank2 and Detect2, and the step's
\* own result otherwise.
C12_FailureFailsInit ==
    motor.init.called =>
        \A i \in 1 .. Len(motor.init.steps) :
            LET s == motor.init.steps[i]
            IN  (s.result # 0 /\ ~(s.step = "ProbeOff" /\ s.result = 2)) =>
                    /\ i = Len(motor.init.steps)
                    /\ motor.init.ret # 0
                    /\ ~HasBit(pfs.status, 8)
                    /\ motor.init.ret =
                           IF s.result = 2 /\ s.step # "ProbeRumbleBank1"
                           THEN 4 ELSE s.result

C12_Witness ==
    /\ motor.init.called
    /\ Len(motor.init.steps) = 5
    /\ motor.init.steps[1] = [step |-> "ProbeOff", result |-> 2]
    /\ motor.init.steps[5] = [step |-> "Detect2", result |-> 2]
    /\ motor.init.ret = 4
    /\ ~HasBit(pfs.status, 8)

(***************************************************************************)
(* SpecDecode: osContGetReadDataEx on answers to frames of three blocks,   *)
(* the first two any of a skipped channel, a standard read, a short poll,  *)
(* a long poll or a block of another command (the status request), the     *)
(* third a standard read.                                                  *)
(***************************************************************************)
sGCNWriteFormatLong ==
    <<3, 10, CONT_CMD_GCN_LONG_POLL, GCN_MODE_3_220, MOTOR_STOP>> \o NopFill(10)

StatusBlock == <<1, 3, CONT_CMD_REQUEST_STATUS>> \o NopFill(3)

DecodeBlocks ==
    {<<PIF_CMD_SKIP_CHNL>>, sN64WriteFormat, sGCNWriteFormatShort(MOTOR_STOP),
     sGCNWriteFormatLong, StatusBlock}

MaxDecodes == 2

DecodeFrames ==
    {Store(ZeroRam, 0, a \o b \o sN64WriteFormat \o <<PIF_CMD_END>>) :
        a \in DecodeBlocks, b \in DecodeBlocks}

DecodeReplies ==
    {ReadingReply(ReadingB \o <<0, 0>>, MAXCONTROLLERS, CHNL_ERR_SUCCESS),
     ReadingReply(ReadingA \o <<0, 0>>, 1, CHNL_ERR_OVERRUN)}

\* The read transfer brings the answer to a frame into __osContPifRam.
DecodeLoad ==
    /\ phase \in {"boot", "decoded"}
    /\ polls < MaxDecodes
    /\ polls' = polls + 1
    /\ \E frame \in DecodeFrames, reply \in DecodeReplies :
           /\ pifRam' = frame
           /\ osContPifRam' = PifExec(frame, reply, 0, 0)
    /\ phase' = "loaded"
    /\ UNCHANGED <<gPortInfo, gContStatusPolling, osContLastCmd, ramOverrun,
                   contPads, contStatus, bitpattern, walk, startRead,
                   flowVars>>

DecodeParse ==
    /\ phase = "loaded"
    /\ GetReadData
    /\ phase' = "decoded"
    /\ UNCHANGED flowVars

NextDecode == DecodeLoad \/ DecodeParse

SpecDecode == Init /\ [][NextDecode]_vars

\* The command id of the first block of the answer that is none of the
\* three poll commands, met before any block answered NoResponse; the
\* answers of SpecDecode carry no NoResponse.
RECURSIVE ForeignAt(_, _, _)
ForeignAt(ram, ptr, ch) ==
    IF ptr + 2 >= 60 \/ ram[ptr + 1] = 254 THEN -1
    ELSE IF ram[ptr + 1] = 0 THEN ForeignAt(ram, ptr + 1, ch + 1)
    ELSE IF ram[ptr + 1] = 255 THEN ForeignAt(ram, ptr + 1, ch)
    ELSE IF ram[ptr + 3] = 1 THEN ForeignAt(ram, ptr + 7, ch + 1)
    ELSE IF ram[ptr + 3] = 64 THEN ForeignAt(ram, ptr + 13, ch + 1)
    ELSE IF ram[ptr + 3] = 67 THEN ForeignAt(ram, ptr + 15, ch + 1)
    ELSE ch

\* C15 (as claimed): a pass that meets a block whose command id is none of
\* standard read, short poll or long poll decodes no further channel and
\* leaves an error the caller can see: an error code in some record or a
\* changed polling mode.
C15_UnknownCommandSurfaced ==
    LET k == ForeignAt(osContPifRam, 0, 0)
    IN  (phase = "decoded" /\ k >= 0) =>
            /\ \A j \in Ports : j > k => contPads[j] = walk.before[j]
            /\ \/ \E p \in Ports : contPads[p].errno # 0
               \/ gContStatusPolling # walk.polling

(***************************************************************************)
(* SpecInput: an extended controller on port 0 answers short polls.  The   *)
(* first answer is a reading at rest (it becomes the origin); the later    *)
(* ones take the shoulder buttons, the left trigger and the secondary      *)
(* stick around the thresholds.                                            *)
(***************************************************************************)
MaxInputs == 2

InputFrame ==
    Store(ZeroRam, 0, sGCNWriteFormatShort(MOTOR_STOP) \o <<PIF_CMD_END>>)

\* [buttons low byte, c_stick x, c_stick y, trigger l]
InputRest == {<<0, 128, 128, 0>>, <<0, 130, 126, 16>>}

InputAxis == {89, 90, 128, 166, 167}

InputReadings ==
    {<<b, x, y, l>> : b \in {0, 16, 64, 80}, x \in InputAxis, y \in InputAxis,
                      l \in {0, 85, 86, 255}}

InputReply(r) ==
    [p \in Ports |->
        [err |-> CHNL_ERR_SUCCESS,
         data |-> <<0, r[1], 128, 128, r[2], r[3], r[4], 0>>]]

InputLoad ==
    /\ phase \in {"boot", "mapped"}
    /\ polls < MaxInputs
    /\ polls' = polls + 1
    /\ \E r \in IF contPads[0].origins.initialized
                THEN InputReadings ELSE InputRest :
           osContPifRam' = PifExec(InputFrame, InputReply(r), 0, 0)
    /\ pifRam' = InputFrame
    /\ phase' = "answered"
    /\ UNCHANGED <<gPortInfo, gContStatusPolling, osContLastCmd, ramOverrun,
                   contPads, contStatus, bitpattern, walk, startRead,
                   flowVars>>

InputParse ==
    /\ phase = "answered"
    /\ GetReadData
    /\ phase' = "mapped"
    /\ UNCHANGED flowVars

NextInput == InputLoad \/ InputParse

SpecInput == Init /\ [][NextInput]_vars

\* C18: in the record of an extended controller the Z flag (0x2000) is set
\* exactly when the controller's L boolean (0x0040) is set or its left
\* trigger reading is strictly above 85, and the L flag (0x0020) is the
\* controller's Z boolean (0x0010).
C18_ShouldersCrossMapped ==
    phase = "mapped" =>
        /\ HasBit(contPads[0].button, 8192)
               <=> (HasBit(osContPifRam[7], 64) \/ osContPifRam[12] > 85)
        /\ HasBit(contPads[0].button, 32) <=> HasBit(osContPifRam[7], 16)

\* L released, Z held, the left trigger one above the threshold.
C18_Witness ==
    /\ phase = "mapped"
    /\ osContPifRam[7] = 16
    /\ osContPifRam[12] = 86
    /\ HasBit(contPads[0].button, 8192)
    /\ HasBit(contPads[0].button, 32)

\* C19: each C-direction is set exactly when the centered secondary stick
\* is strictly beyond the threshold 38 on its side (C_UP y > 38, C_DOWN
\* y < -38, C_LEFT x < -38, C_RIGHT x > 38); two opposite directions are
\* never both set.
C19_CDirectionsStrict ==
    phase = "mapped" =>
        LET b == contPads[0].button
            c == contPads[0].c_stick
        IN  /\ HasBit(b, 8) <=> c[2] > 38
            /\ HasBit(b, 4) <=> c[2] < -38
            /\ HasBit(b, 2) <=> c[1] < -38
            /\ HasBit(b, 1) <=> c[1] > 38
            /\ ~(HasBit(b, 8) /\ HasBit(b, 4))
            /\ ~(HasBit(b, 2) /\ HasBit(b, 1))

\* y at the threshold and x one above it: C_RIGHT alone is set.
C19_Witness ==
    /\ phase = "mapped"
    /\ contPads[0].c_stick = <<39, 38>>
    /\ contPads[0].button % 16 = 1

(***************************************************************************)
(* SpecGate: the polls of the game flow interleaved with the rumble flow   *)
(* on a GameCube port and on a standard port: there the handshake, then    *)
(* motor commands sent through the PIF.                                    *)
(***************************************************************************)
GateKinds == <<"gcn", "n64", "none", "none">>

\* What the accessory of the standard port answers: every step of the
\* handshake succeeds, every motor command is acknowledged with the byte
\* of Start.
\* The channel the rumble flow works on.
GateChannels == {1}

GatePfsResults == {PFS_ERR_SUCCESS}

GateDetectBytes == {ACCESSORY_ID_RUMBLE}

GateMotorReplies == {[err |-> CHNL_ERR_SUCCESS, ack |-> MotorAckStart]}

\* The one status query, before the first poll.
GateQuery ==
    /\ phase = "run"
    /\ bitpattern = 0
    /\ pc.game = "idle"
    /\ siAccess = "none"
    /\ QueryStatus(KindsOf(GateKinds))
    /\ UNCHANGED <<phase, flowVars>>

\* The caller's osRecvMesg: the read transfer is over.  What the caller
\* does with the answer is not part of this specification.
GateRecvMesg ==
    /\ pc.game = "srd_done"
    /\ callSaw' = [p \in Ports |-> {}]
    /\ pc' = [pc EXCEPT !.game = "idle"]
    /\ UNCHANGED <<seqVars, phase, siAccess, packer, pfs, motorArg, rumbleSet,
                   MotorDataBuf, motor, startRead>>

NextGate ==
    \/ FlowMode \/ GateQuery
    \/ GameGetAccess \/ GameCheck \/ GamePackZero \/ GamePackPort \/ GamePackEnd
    \/ GameWrite \/ GameWait \/ GameRead \/ GameMark \/ GameRelease
    \/ GateRecvMesg
    \/ RumbleInit \/ RumbleCall \/ RumbleSet \/ RumbleMark
    \/ MotorInitBegin(GateChannels)
    \/ MotorInitProbeOff(GatePfsResults)
    \/ MotorInitDetect1(GatePfsResults, GateDetectBytes)
    \/ MotorInitProbeRumble2(GatePfsResults)
    \/ MotorInitDetect2(GatePfsResults, GateDetectBytes)
    \/ MotorInitDone
    \/ MotorCall({MOTOR_START})
    \/ MotorGetAccess \/ MotorFill \/ MotorMark \/ MotorWrite
    \/ MotorWait1 \/ MotorRead(GateMotorReplies) \/ MotorCheck \/ MotorRelease

SpecGate == Init /\ [][NextGate]_vars

\* A frame of poll blocks only: skip bytes, standard read blocks (7 bytes,
\* command 0x01) and short-poll blocks (13 bytes, command 0x40), closed by
\* the end marker.
RECURSIVE IsPollFrame(_, _)
IsPollFrame(ram, ptr) ==
    IF ptr + 2 >= 60 THEN FALSE
    ELSE IF ram[ptr + 1] = 254 THEN TRUE
    ELSE IF ram[ptr + 1] = 0 THEN IsPollFrame(ram, ptr + 1)
    ELSE IF ram[ptr + 3] = 1 THEN IsPollFrame(ram, ptr + 7)
    ELSE IF ram[ptr + 3] = 64 THEN IsPollFrame(ram, ptr + 13)
    ELSE FALSE

\* osContStartReadDataEx past its test of the marker: it wrote a frame
\* exactly when the marker it read was not the poll command, and when it
\* wrote none the frame in the PIF at the start of the read is a poll frame.
SkipIsSafe ==
    /\ pc.game \in {"srd_read", "srd_mark", "srd_release", "srd_done"}
           => (startRead.wrote <=> startRead.marker # 1)
    /\ (pc.game = "srd_read" /\ ~startRead.wrote) => IsPollFrame(pifRam, 0)

SwapKinds ==
    {<<"none", "gcn", "none", "none">>, <<"none", "n64", "none", "none">>}

\* The channel the rumble flow works on.
SwapChannels == {1}

SwapPfsResults == {PFS_ERR_SUCCESS, PFS_ERR_CONTRFAIL}

SwapDetectBytes == {ACCESSORY_ID_RUMBLE}

SwapMotorReplies ==
    {[err |-> CHNL_ERR_SUCCESS, ack |-> MotorAckStart],
     [err |-> CHNL_ERR_NORESP, ack |-> 255]}

\* A status cycle, whenever the gate is free.
SwapQuery ==
    /\ phase \in {"boot", "motor"}
    /\ siAccess = "none"
    /\ \E t \in SwapKinds : QueryStatus(KindsOf(t))
    /\ phase' = "motor"
    /\ UNCHANGED flowVars

NextSwap ==
    \/ SwapQuery
    \/ RumbleInit
    \/ MotorInitBegin(SwapChannels)
    \/ MotorInitProbeOff(SwapPfsResults)
    \/ MotorInitDetect1(SwapPfsResults, SwapDetectBytes)
    \/ MotorInitProbeRumble2(SwapPfsResults)
    \/ MotorInitDetect2(SwapPfsResults, SwapDetectBytes)
    \/ MotorInitDone
    \/ MotorCallInvalid
    \/ MotorCall(MotorStates)
    \/ MotorGetAccess \/ MotorFill \/ MotorMark \/ MotorWrite
    \/ MotorWait1 \/ MotorRead(SwapMotorReplies) \/ MotorCheck \/ MotorRelease

SpecSwap == Init /\ [][NextSwap]_vars

\* C21 (as claimed): whenever __osMotorAccessEx has written its buffer to
\* the PIF for a standard-protocol transfer, the frame is the block
\* _MakeMotorData builds for the channel (a skip byte per lower channel,
\* then 0xFF, tx 35, rx 1, the pak write command, the rumble address, and
\* the end marker after the block), never a zeroed buffer, and the 32 data
\* bytes the call patched lie inside that block, at its data offset.
C21_AccessSendsBuiltBlock ==
    pc.rumble = "ma_wait1" =>
        LET ch == pfs.channel
        IN  /\ \A i \in 1 .. ch : pifRam[i] = 0
            /\ pifRam[ch + 1] = 255
            /\ pifRam[ch + 2] = 35
            /\ pifRam[ch + 3] % 64 = 1
            /\ pifRam[ch + 4] = 3
            /\ pifRam[ch + 5] = 192
            /\ pifRam[ch + 6] = 27
            /\ \A i \in 1 .. 32 : pifRam[ch + 6 + i] = motorArg
            /\ pifRam[ch + 40] = 254

(***************************************************************************)
(* SpecStart: osContStartReadDataEx over every registry and over what its  *)
(* two transfers return.                                                   *)
(***************************************************************************)
MaxStarts == 2

StartQuery ==
    /\ phase = "boot"
    /\ \E kinds \in [Ports -> PortKinds] : QueryStatus(kinds)
    /\ phase' = "setup"
    /\ UNCHANGED flowVars

StartPolling ==
    /\ phase = "setup"
    /\ StartStatusPolling
    /\ UNCHANGED <<phase, flowVars>>

StartCall ==
    /\ phase \in {"setup", "polled"}
    /\ polls < MaxStarts
    /\ \E wr \in DmaResults, rd \in DmaResults :
           osContStartReadDataEx(
               ReadingReply(ReadingA, MAXCONTROLLERS, CHNL_ERR_SUCCESS), wr, rd)
    /\ phase' = "polled"
    /\ UNCHANGED flowVars

NextStart == StartQuery \/ StartPolling \/ StartCall

SpecStart == Init /\ [][NextStart]_vars

\* C14 (as claimed): when the write of the poll frame returns busy, the
\* value osContStartReadDataEx returns is not success, whatever the read
\* returns.
C14_WriteFailureReturned ==
    (startRead.called /\ startRead.wrote /\ startRead.write = DmaBusy)
        => startRead.ret # DmaStarted

=============================================================================
